---- MODULE Spec2Model ----
(***************************************************************************)
(* FilesByDate: the file-organisation engine of src/logic.py               *)
(* (class FileManagementLogic) over an abstract file system.               *)
(*                                                                         *)
(* File system: two trees, the source directory fs.src and the destination *)
(* root fs.dst.  A node is a regular file or a directory; a directory maps *)
(* names to nodes.  A file name is kept split the way os.path.splitext     *)
(* splits it: base, the "_<counter>" suffixes appended so far, extension.  *)
(***************************************************************************)
EXTENDS Integers, Sequences, FiniteSets, TLC

VARIABLES
    fs,                 \* the file system: [src, dst, dst_mode]
    format_type,        \* FileManagementLogic.format_type
    pil,                \* TRUE iff `from PIL import Image` succeeds
    last_operation,     \* FileManagementLogic.last_operation (None or a record)
    operation_history,  \* FileManagementLogic.operation_history
    pc,                 \* where the running copy()/move() call is; "idle" between calls
    listing,            \* the result of the running loop's get_target_files()
    idx,                \* position of the running loop in listing
    done,               \* moved_files / copied_files of the running batch
    errors,             \* errors of the running batch
    ret,                \* what the last finished call gave its caller
    pre,                \* the state when the last call started (history variable)
    recorded,           \* every operation this engine tracked, oldest first (history variable)
    clock,              \* number of batches started; stands for datetime.now()
    window              \* FileChooserApp: the engine it holds, the state of its Undo button

vars == <<fs, format_type, pil, last_operation, operation_history,
          pc, listing, idx, done, errors, ret, pre, recorded, clock, window>>

-----------------------------------------------------------------------------
(* Bounds of the model *)

MaxBatches == 2

-----------------------------------------------------------------------------
(* Generic helpers *)

EmptyMap == [x \in {} |-> x]

Put(f, k, v) == [x \in (DOMAIN f) \cup {k} |-> IF x = k THEN v ELSE f[x]]

Remove(f, k) == [x \in (DOMAIN f) \ {k} |-> f[x]]

Range(s) == {s[i] : i \in DOMAIN s}

RECURSIVE Perms(_)
Perms(S) ==
    IF S = {} THEN {<<>>}
    ELSE UNION {{<<x>> \o p : p \in Perms(S \ {x})} : x \in S}

-----------------------------------------------------------------------------
(* File names, dates and nodes *)

Name(base, sfx, ext) == [base |-> base, sfx |-> sfx, ext |-> ext]

\* f"{base_name}_{counter}{extension}" after os.path.splitext(file_name)
SuffixedName(file_name, counter) ==
    [file_name EXCEPT !.sfx = Append(@, counter)]

Date(y, m, d) == [y |-> y, m |-> m, d |-> d]

NoDate == Date(0, 0, 0)

\* The time of the run: what a created directory or a copied file gets as
\* its modification time.
Now == Date(2025, 6, 7)

\* exif.state: "undecodable" (Image.open raises), "none" (_getexif() is
\* None) or "tags" (a map from tag ids to values)
Exif(state, tags) == [state |-> state, tags |-> tags]

NoExif == Exif("none", EmptyMap)

FileNode(data, mtime, exif) ==
    [kind |-> "file", data |-> data, mtime |-> mtime, exif |-> exif, items |-> EmptyMap]

DirNode(mtime, items) ==
    [kind |-> "dir", data |-> 0, mtime |-> mtime, exif |-> NoExif, items |-> items]

MissingNode ==
    [kind |-> "missing", data |-> 0, mtime |-> NoDate, exif |-> NoExif, items |-> EmptyMap]

-----------------------------------------------------------------------------
(* Date format selection and formatting *)

format_date_default_dmy(ft) ==
    IF ft = "MM-DD-YYYY" THEN <<"m", "d", "Y">>
    ELSE IF ft = "YYYY-MM-DD" THEN <<"Y", "m", "d">>
    ELSE <<"d", "m", "Y">>

\* format_date(): the strftime directives in their order
format_date(ft) ==
    IF ft = "DD-MM-YYYY" THEN <<"d", "m", "Y">>
    ELSE IF ft = "MM-DD-YYYY" THEN <<"m", "d", "Y">>
    ELSE IF ft = "YYYY-MM-DD" THEN <<"Y", "m", "d">>
    ELSE <<"Y", "m", "d">>

\* datetime.strftime for the three directives the engine uses
strftime(date, fmt) ==
    [i \in DOMAIN fmt |->
        IF fmt[i] = "d" THEN date.d ELSE IF fmt[i] = "m" THEN date.m ELSE date.y]

-----------------------------------------------------------------------------
(* Image metadata.  A tag value is a string, kept as the sequence of its     *)
(* characters by class (a run of digits is one character, named after the   *)
(* field it holds), with the date its digits spell.                         *)

image_extensions == {".jpg", ".jpeg", ".png", ".gif", ".bmp", ".tiff", ".tif"}

date_fields == <<36867, 36868, 306, 50971>>

ExifValue(text, date) == [text |-> text, date |-> date]

\* "2023:01:15 10:30:00", the form the EXIF standard prescribes
Canonical == <<"Y", ":", "M", ":", "D", " ", "h", ":", "m", ":", "s">>

\* "2023:01:15:10:30:00"
AllColons == <<"Y", ":", "M", ":", "D", ":", "h", ":", "m", ":", "s">>

\* "2023-01-15 10:30:00"
DashTime == <<"Y", "-", "M", "-", "D", " ", "h", ":", "m", ":", "s">>

\* "2023:01:15"
ColonDate == <<"Y", ":", "M", ":", "D">>

\* "2023-01-15"
DashDate == <<"Y", "-", "M", "-", "D">>

\* "2023/01/15"
SlashDate == <<"Y", "/", "M", "/", "D">>

\* "unknown"
Junk == <<"x">>

\* str.replace(old, new, count)
RECURSIVE replace(_, _, _, _)
replace(text, old, new, count) ==
    IF text = <<>> \/ count = 0 THEN text
    ELSE IF Head(text) = old
         THEN <<new>> \o replace(Tail(text), old, new, count - 1)
         ELSE <<Head(text)>> \o replace(Tail(text), old, new, count)

\* datetime.strptime(date_str, fmt) for a string spelling date: the date
\* when the string has the shape of fmt, NoDate for a ValueError
strptime(text, date, fmt) == IF text = fmt THEN date ELSE NoDate

\* ':' in date_str
HasColon(v) == ":" \in {v.text[i] : i \in DOMAIN v.text}

\* Lines 275-295: the parse of one non-empty tag value; NoDate when it fails.
ParseTag(v) ==
    IF HasColon(v)
    THEN \* replace(':', '-', 2), replace(':', ' ', 1), strptime '%Y-%m-%d %H:%M:%S'
         strptime(replace(replace(v.text, ":", "-", 2), ":", " ", 1), v.date, DashTime)
    ELSE \* '%Y-%m-%d %H:%M:%S', '%Y-%m-%d', '%Y/%m/%d' in turn
         IF strptime(v.text, v.date, DashTime) # NoDate
         THEN strptime(v.text, v.date, DashTime)
         ELSE IF strptime(v.text, v.date, DashDate) # NoDate
              THEN strptime(v.text, v.date, DashDate)
              ELSE strptime(v.text, v.date, SlashDate)

RECURSIVE ProbeFields(_, _)
ProbeFields(exif_data, i) ==
    IF i > Len(date_fields) THEN NoDate
    ELSE LET field_id == date_fields[i] IN
         IF field_id \in DOMAIN exif_data
            /\ exif_data[field_id].text # <<>>
            /\ ParseTag(exif_data[field_id]) # NoDate
         THEN ParseTag(exif_data[field_id])
         ELSE ProbeFields(exif_data, i + 1)

\* str.lower() of an extension
lower(ext) ==
    IF ext = ".JPG" THEN ".jpg" ELSE IF ext = ".TXT" THEN ".txt" ELSE ext

\* _get_exif_date(file_path) for the node at that path
get_exif_date(file_name, node) ==
    IF lower(file_name.ext) \notin image_extensions THEN NoDate
    ELSE IF ~pil THEN NoDate
    ELSE IF node.kind # "file" THEN NoDate            \* Image.open raises
    ELSE IF node.exif.state # "tags" THEN NoDate
    ELSE ProbeFields(node.exif.tags, 1)

\* get_file_date_info(file_name), given the node os.stat found
get_file_date_info(file_name, node) ==
    LET photo_date == get_exif_date(file_name, node) IN
    IF photo_date # NoDate
    THEN [date |-> strftime(photo_date, format_date(format_type)),
          source |-> "EXIF data", original_date |-> photo_date]
    ELSE [date |-> strftime(node.mtime, format_date(format_type)),
          source |-> "File modification time", original_date |-> node.mtime]

\* read_file_date_properties(file_name)
read_file_date_properties(file_name, node) ==
    LET photo_date == get_exif_date(file_name, node) IN
    IF photo_date # NoDate
    THEN strftime(photo_date, format_date(format_type))
    ELSE strftime(node.mtime, format_date(format_type))

-----------------------------------------------------------------------------
(* The file system.  f = [src, dst, dst_mode]: the source directory node,  *)
(* the destination root node, and the destination root's permission bits   *)
(* ("0o755"; "0o555": searchable, not writable; "0o444": neither).  A path is      *)
(* [root, bucket, name]: a source file has root "src" and no bucket, a     *)
(* destination file lies in the bucket directory of the destination root.  *)

SrcPath(file_name) == [root |-> "src", bucket |-> <<>>, name |-> file_name]

DstPath(bucket, file_name) == [root |-> "dst", bucket |-> bucket, name |-> file_name]

\* The node os.stat finds for a bucket directory path
BucketNode(f, bucket) ==
    IF f.dst.kind = "dir" /\ f.dst_mode # "0o444" /\ bucket \in DOMAIN f.dst.items
    THEN f.dst.items[bucket]
    ELSE MissingNode

\* The directory node holding path p's last component
ParentNode(f, p) == IF p.root = "src" THEN f.src ELSE BucketNode(f, p.bucket)

\* The node os.stat finds at a file path
Lookup(f, p) ==
    LET parent == ParentNode(f, p) IN
    IF parent.kind = "dir" /\ p.name \in DOMAIN parent.items
    THEN parent.items[p.name]
    ELSE MissingNode

os_path_exists(f, p) == Lookup(f, p).kind # "missing"

folder_exists(f, bucket) == BucketNode(f, bucket).kind # "missing"

\* f with node written at p (the parent is a directory)
Store(f, p, node) ==
    IF p.root = "src"
    THEN [f EXCEPT !.src.items = Put(@, p.name, node)]
    ELSE [f EXCEPT !.dst.items[p.bucket].items = Put(@, p.name, node)]

\* f with the entry at p removed
Unlink(f, p) ==
    IF p.root = "src"
    THEN [f EXCEPT !.src.items = Remove(@, p.name)]
    ELSE [f EXCEPT !.dst.items[p.bucket].items = Remove(@, p.name)]

Ok(f) == [ok |-> TRUE, fs |-> f]

Raise(f) == [ok |-> FALSE, fs |-> f]

\* os.makedirs(folder_path): creates the destination root too when absent
os_makedirs(f, bucket) ==
    IF f.dst.kind = "missing"
    THEN Ok([f EXCEPT !.dst = DirNode(Now, Put(EmptyMap, bucket, DirNode(Now, EmptyMap))),
                      !.dst_mode = "0o755"])
    ELSE IF f.dst_mode # "0o755" THEN Raise(f)                 \* PermissionError
    ELSE IF bucket \in DOMAIN f.dst.items THEN Raise(f)        \* FileExistsError
    ELSE Ok([f EXCEPT !.dst.items = Put(@, bucket, DirNode(Now, EmptyMap))])

shutil_copy_empty(f, a, b) ==
    LET node == Lookup(f, a) IN
    IF node.kind # "file" THEN Raise(f)
    ELSE IF ParentNode(f, b).kind # "dir" THEN Raise(f)
    ELSE Ok(Store(f, b, FileNode(0, Now, NoExif)))

\* shutil.copy(a, b): the bytes are copied, the modification time is not
shutil_copy(f, a, b) ==
    LET node == Lookup(f, a) IN
    IF node.kind # "file" THEN Raise(f)       \* FileNotFoundError, IsADirectoryError
    ELSE IF ParentNode(f, b).kind # "dir" THEN Raise(f)   \* NotADirectoryError etc.
    ELSE IF Lookup(f, b).kind = "dir" THEN Raise(f)
    ELSE Ok(Store(f, b, FileNode(node.data, Now, node.exif)))

shutil_move_keeps_source(f, a, b) ==
    LET node == Lookup(f, a) IN
    IF node.kind = "missing" THEN Raise(f)
    ELSE IF ParentNode(f, b).kind # "dir" THEN Raise(f)
    ELSE Ok(Store(f, b, node))

\* shutil.move(a, b): os.rename of a file or a directory, metadata kept;
\* an existing regular file at b is replaced.  (A directory at b would take
\* the moved node inside it; no path of this model names such a place.)
shutil_move(f, a, b) ==
    LET node == Lookup(f, a) IN
    IF node.kind = "missing" THEN Raise(f)
    ELSE IF ParentNode(f, b).kind # "dir" THEN Raise(f)
    ELSE IF Lookup(f, b).kind = "dir" THEN Raise(f)
    ELSE Ok(Store(Unlink(f, a), b, node))

\* os.remove(p)
os_remove(f, p) ==
    IF Lookup(f, p).kind # "file" THEN Raise(f) ELSE Ok(Unlink(f, p))

-----------------------------------------------------------------------------
(* The engine: one file of a batch *)

Entry(file_name, from, to, info) ==
    [file |-> file_name, from |-> from, to |-> to,
     date_folder |-> info.date, date_source |-> info.source]

ErrorMsg(kind, file_name) == [kind |-> kind, file |-> file_name]

NoEntry == Entry(Name("", <<>>, ""), SrcPath(Name("", <<>>, "")),
                 SrcPath(Name("", <<>>, "")), [date |-> <<>>, source |-> ""])

NextFreePath_no_loop(f, folder, file_name, counter) ==
    DstPath(folder, SuffixedName(file_name, counter))

\* Lines 365-368 / 442-445: the first stem_<counter>.ext that does not exist
RECURSIVE NextFreePath(_, _, _, _)
NextFreePath(f, folder, file_name, counter) ==
    LET destination_path == DstPath(folder, SuffixedName(file_name, counter)) IN
    IF os_path_exists(f, destination_path)
    THEN NextFreePath(f, folder, file_name, counter + 1)
    ELSE destination_path

destination_for_plain(f, folder, file_name) == DstPath(folder, file_name)

\* Lines 361-368 / 438-445
destination_for(f, folder, file_name) ==
    IF os_path_exists(f, DstPath(folder, file_name))
    THEN NextFreePath(f, folder, file_name, 1)
    ELSE DstPath(folder, file_name)

Step(f, outcome, entry) == [fs |-> f, outcome |-> outcome, entry |-> entry]

\* Lines 354-358 / 431-435: the source is gone, an error is recorded
source_not_found(f) == Step(f, "not_found", NoEntry)

on_exception_dropped(f) == Step(f, "dropped", NoEntry)

\* Lines 383-387 / 460-464: any exception of the turn is recorded
on_exception(f) == Step(f, "exception", NoEntry)

\* The body of the loop of move_files_to_destination_folder for one name.
\* outcome: "entry", "not_found" (line 354) or "exception" (line 383).
move_one(f, file_name) ==
    LET source_path == SrcPath(file_name)
        node == Lookup(f, source_path)
    IN  IF node.kind = "missing" THEN on_exception(f)                  \* os.stat raises
        ELSE
        LET info == get_file_date_info(file_name, node)
            folder == info.date
            mk == IF folder_exists(f, folder) THEN Ok(f) ELSE os_makedirs(f, folder)
        IN  IF ~mk.ok THEN on_exception(mk.fs)
            ELSE IF ~os_path_exists(mk.fs, source_path)
            THEN source_not_found(mk.fs)
            ELSE
            LET destination_path == destination_for(mk.fs, folder, file_name)
                mv == shutil_move(mk.fs, source_path, destination_path)
            IN  IF mv.ok
                THEN Step(mv.fs, "entry",
                          Entry(file_name, source_path, destination_path, info))
                ELSE on_exception(mv.fs)

\* The body of the loop of copy_files_to_destination_folder for one name.
copy_one(f, file_name) ==
    LET source_path == SrcPath(file_name)
        node == Lookup(f, source_path)
    IN  IF node.kind = "missing" THEN on_exception(f)                  \* os.stat raises
        ELSE
        LET info == get_file_date_info(file_name, node)
            folder == info.date
            mk == IF folder_exists(f, folder) THEN Ok(f) ELSE os_makedirs(f, folder)
        IN  IF ~mk.ok THEN on_exception(mk.fs)
            ELSE IF ~os_path_exists(mk.fs, source_path)
            THEN source_not_found(mk.fs)
            ELSE
            LET destination_path == destination_for(mk.fs, folder, file_name)
                cp == shutil_copy(mk.fs, source_path, destination_path)
            IN  IF cp.ok
                THEN Step(cp.fs, "entry",
                          Entry(file_name, source_path, destination_path, info))
                ELSE on_exception(cp.fs)

\* The body of the loop of create_folder_with_date for one name: nothing
\* here is caught, so ok = FALSE leaves copy() by an exception.
create_folder_one(f, file_name) ==
    LET node == Lookup(f, SrcPath(file_name)) IN
    IF node.kind = "missing" THEN Raise(f)                            \* os.stat raises
    ELSE LET folder == read_file_date_properties(file_name, node) IN
         IF folder_exists(f, folder) THEN Ok(f) ELSE os_makedirs(f, folder)

-----------------------------------------------------------------------------
(* The engine: operation tracking and undo *)

HistoryLimit == 10

NoOperation == [type |-> "none", files |-> <<>>, timestamp |-> 0]

Operation(operation_type, files_info, timestamp) ==
    [type |-> operation_type, files |-> files_info, timestamp |-> timestamp]

track_history_unbounded(history, operation) == Append(history, operation)

\* _track_operation: the new operation_history
track_history(history, operation) ==
    LET appended == Append(history, operation) IN
    IF Len(appended) > HistoryLimit THEN Tail(appended) ELSE appended

remove_all_folders(f, folders_to_check) ==
    [f EXCEPT !.dst.items = [b \in (DOMAIN @) \ folders_to_check |-> @[b]]]

remove_no_folders(f, folders_to_check) == f

\* _remove_empty_folders(folders_to_check): os.rmdir needs a writable root;
\* its OSError is caught at line 148 and the folder is left
remove_empty_folders(f, folders_to_check) ==
    LET removed == {b \in folders_to_check :
                        /\ BucketNode(f, b).kind = "dir"
                        /\ DOMAIN BucketNode(f, b).items = {}
                        /\ f.dst_mode = "0o755"}
    IN  [f EXCEPT !.dst.items = [b \in (DOMAIN @) \ removed |-> @[b]]]

Undone(ok, f, folders) == [ok |-> ok, fs |-> f, folders |-> folders]

undo_move_loop_first_only(f, files_info, i, folders_to_check) ==
    IF files_info # <<>> /\ os_path_exists(f, files_info[1].to)
    THEN LET mv == shutil_move(f, files_info[1].to, files_info[1].from) IN
         [ok |-> mv.ok, fs |-> mv.fs, folders |-> {files_info[1].to.bucket}]
    ELSE [ok |-> TRUE, fs |-> f, folders |-> {}]

\* The loop of _undo_move_operation from entry i on
RECURSIVE undo_move_loop(_, _, _, _)
undo_move_loop(f, files_info, i, folders_to_check) ==
    IF i > Len(files_info) THEN Undone(TRUE, f, folders_to_check)
    ELSE LET source_path == files_info[i].from
             current_path == files_info[i].to
         IN  IF os_path_exists(f, current_path)
             THEN LET mv == shutil_move(f, current_path, source_path) IN
                  IF mv.ok
                  THEN undo_move_loop(mv.fs, files_info, i + 1,
                                      folders_to_check \cup {current_path.bucket})
                  ELSE Undone(FALSE, mv.fs, folders_to_check)
             ELSE undo_move_loop(f, files_info, i + 1, folders_to_check)

\* The loop of _undo_copy_operation from entry i on
RECURSIVE undo_copy_loop(_, _, _, _)
undo_copy_loop(f, files_info, i, folders_to_check) ==
    IF i > Len(files_info) THEN Undone(TRUE, f, folders_to_check)
    ELSE LET current_path == files_info[i].to IN
         IF os_path_exists(f, current_path)
         THEN LET rm == os_remove(f, current_path) IN
              IF rm.ok
              THEN undo_copy_loop(rm.fs, files_info, i + 1,
                                  folders_to_check \cup {current_path.bucket})
              ELSE Undone(FALSE, rm.fs, folders_to_check)
         ELSE undo_copy_loop(f, files_info, i + 1, folders_to_check)

UndoResult(value, f, last) == [value |-> value, fs |-> f, last_operation |-> last]

\* _undo_move_operation(files_info) on self.last_operation = last: the value
\* returned, the file system and self.last_operation afterwards
undo_move_operation(f, last) ==
    LET r == undo_move_loop(f, last.files, 1, {}) IN
    IF r.ok
    THEN UndoResult(TRUE, remove_empty_folders(r.fs, r.folders), NoOperation)
    ELSE UndoResult(FALSE, r.fs, last)                             \* lines 79-81

undo_copy_operation_all_or_nothing(f, last) ==
    IF \A i \in DOMAIN last.files : os_path_exists(f, last.files[i].to)
    THEN LET r == undo_copy_loop(f, last.files, 1, {}) IN
         UndoResult(r.ok, IF r.ok THEN remove_empty_folders(r.fs, r.folders) ELSE r.fs,
                    IF r.ok THEN NoOperation ELSE last)
    ELSE UndoResult(FALSE, f, last)

undo_copy_operation_keeps_last(f, last) ==
    LET r == undo_copy_loop(f, last.files, 1, {}) IN
    UndoResult(r.ok, IF r.ok THEN remove_empty_folders(r.fs, r.folders) ELSE r.fs, last)

\* _undo_copy_operation(files_info)
undo_copy_operation(f, last) ==
    LET r == undo_copy_loop(f, last.files, 1, {}) IN
    IF r.ok
    THEN UndoResult(TRUE, remove_empty_folders(r.fs, r.folders), NoOperation)
    ELSE UndoResult(FALSE, r.fs, last)                             \* lines 119-121

undo_last_action_no_guard(f, last) ==
    IF last.type = "move" THEN undo_move_operation(f, last)
    ELSE IF last.type = "copy" THEN undo_copy_operation(f, last)
    ELSE UndoResult(TRUE, f, last)

\* undo_last_action()
undo_last_action(f, last) ==
    IF last = NoOperation THEN UndoResult(FALSE, f, last)
    ELSE IF last.type = "move" THEN undo_move_operation(f, last)
    ELSE IF last.type = "copy" THEN undo_copy_operation(f, last)
    ELSE UndoResult(FALSE, f, last)

-----------------------------------------------------------------------------
(* Initial states *)

D1 == Date(2024, 3, 10)
D2 == Date(2023, 1, 15)

\* How many names the source directory holds at most at the start
MaxFiles == 2

DocTxt == Name("doc", <<>>, ".txt")
Doc1Txt == Name("doc", <<1>>, ".txt")
PhotoJpg == Name("photo", <<>>, ".jpg")
SubDir == Name("sub", <<>>, "")
KeepTxt == Name("keep", <<>>, ".txt")

\* The entries a source directory may start with: two text files whose
\* names differ by a "_1", a photo last written when it was taken, a
\* subdirectory.
SourcePool ==
    [n \in {DocTxt, Doc1Txt, PhotoJpg, SubDir} |->
        IF n = DocTxt THEN FileNode(1, D1, NoExif)
        ELSE IF n = Doc1Txt THEN FileNode(2, D1, NoExif)
        ELSE IF n = PhotoJpg
             THEN FileNode(3, D2, Exif("tags", Put(EmptyMap, 36867, ExifValue(Canonical, D2))))
        ELSE DirNode(D1, EmptyMap)]

InitSources ==
    {MissingNode} \cup
    {DirNode(Now, [n \in S |-> SourcePool[n]]) :
        S \in {T \in SUBSET (DOMAIN SourcePool) : Cardinality(T) <= MaxFiles}}

\* Destination trees at the start, b being the bucket of date D1: absent,
\* empty, b holding a foreign doc.txt, b holding an unrelated file, b empty,
\* and a regular file named b.
InitDestinations(b) ==
    {MissingNode,
     DirNode(Now, EmptyMap),
     DirNode(Now, Put(EmptyMap, b, DirNode(Now, Put(EmptyMap, DocTxt, FileNode(9, D2, NoExif))))),
     DirNode(Now, Put(EmptyMap, b, DirNode(Now, Put(EmptyMap, KeepTxt, FileNode(8, D2, NoExif))))),
     DirNode(Now, Put(EmptyMap, b, DirNode(Now, EmptyMap))),
     DirNode(Now, Put(EmptyMap, b, FileNode(7, D2, NoExif)))}

InitFormats == {"DD-MM-YYYY"}

\* FileChooserApp: self.file_management_logic is None or an engine (whose
\* state is last_operation and operation_history), the Undo button is
\* "normal" or "disabled"
Window(file_management_logic, undo_button) ==
    [file_management_logic |-> file_management_logic, undo_button |-> undo_button]

\* The window after FileChooserApp.__init__, which ends create_widgets with
\* update_button_states(): no engine, Undo disabled.  It stays so where the
\* engine is used without the window.
NoWindow == Window("None", "disabled")

Ret(call, outcome, entries, errs, value, lst) ==
    [call |-> call, outcome |-> outcome, entries |-> entries, errors |-> errs,
     value |-> value, listing |-> lst]

NoCall == Ret("none", "none", <<>>, <<>>, FALSE, <<>>)

\* What the history variable keeps of the state in which a call starts:
\* the state, what the call before gave, and the file system that call found
Snapshot == [fs |-> fs, last_operation |-> last_operation,
             operation_history |-> operation_history,
             ret |-> ret, prev_fs |-> pre.fs]

\* __init__
Init ==
    /\ format_type \in InitFormats
    /\ pil = TRUE
    /\ window = NoWindow
    /\ \E s \in InitSources :
       \E d \in InitDestinations(strftime(D1, format_date(format_type))) :
       \E m \in {"0o755", "0o444"} :
          /\ (m = "0o444" => d.kind = "dir")
          /\ fs = [src |-> s, dst |-> d, dst_mode |-> m]
    /\ last_operation = NoOperation
    /\ operation_history = <<>>
    /\ recorded = <<>>
    /\ pc = "idle"
    /\ listing = <<>>
    /\ idx = 1
    /\ done = <<>>
    /\ errors = <<>>
    /\ ret = NoCall
    /\ pre = [fs |-> fs, last_operation |-> NoOperation, operation_history |-> <<>>,
              ret |-> NoCall, prev_fs |-> fs]
    /\ clock = 0

-----------------------------------------------------------------------------
(* Actions *)

listdir_never_raises(f) == FALSE

\* get_target_files(): os.listdir raises when the directory is absent
listdir_raises(f) == f.src.kind # "dir"

\* get_target_files(): the names, in whatever order the system gives
Listings(f) == Perms(DOMAIN f.src.items)

\* get_target_folder_files_count(): the names os.path.isfile accepts
get_target_folder_files_count(f) ==
    Cardinality({n \in DOMAIN f.src.items : f.src.items[n].kind = "file"})

\* The call leaves by an exception: nothing is returned
Raised(call, f) ==
    /\ fs' = f
    /\ pc' = "idle"
    /\ listing' = <<>>
    /\ idx' = 1
    /\ done' = <<>>
    /\ errors' = <<>>
    /\ ret' = Ret(call, "raised", <<>>, <<>>, FALSE, listing)
    /\ UNCHANGED <<last_operation, operation_history, recorded>>

\* copy(): the call and the os.listdir of create_folder_with_date
CopyCall(max) ==
    /\ pc = "idle"
    /\ clock < max
    /\ clock' = clock + 1
    /\ pre' = Snapshot
    /\ UNCHANGED <<format_type, pil, window>>
    /\ IF listdir_raises(fs)
       THEN Raised("copy", fs)
       ELSE /\ pc' = "mkdir"
            /\ listing' \in Listings(fs)
            /\ idx' = 1
            /\ ret' = Ret("copy", "running", <<>>, <<>>, FALSE, <<>>)
            /\ UNCHANGED <<fs, done, errors, last_operation, operation_history, recorded>>

CopyBegin == CopyCall(MaxBatches)

\* create_folder_with_date: one turn of the loop
CreateFolderStep ==
    /\ pc = "mkdir"
    /\ idx <= Len(listing)
    /\ UNCHANGED <<format_type, pil, window, pre, clock>>
    /\ LET r == create_folder_one(fs, listing[idx]) IN
       IF r.ok
       THEN /\ fs' = r.fs
            /\ idx' = idx + 1
            /\ UNCHANGED <<pc, listing, done, errors, ret, last_operation, operation_history, recorded>>
       ELSE Raised("copy", r.fs)

\* copy_files_to_destination_folder: its os.listdir.  The order of an
\* unchanged directory is the order of the first listing.
CopyList ==
    /\ pc = "mkdir"
    /\ idx > Len(listing)
    /\ UNCHANGED <<format_type, pil, window, pre, clock>>
    /\ IF listdir_raises(fs)
       THEN Raised("copy", fs)
       ELSE /\ pc' = "copy"
            /\ listing' \in IF Range(listing) = DOMAIN fs.src.items
                            THEN {listing} ELSE Listings(fs)
            /\ idx' = 1
            /\ done' = <<>>
            /\ errors' = <<>>
            /\ UNCHANGED <<fs, ret, last_operation, operation_history, recorded>>

LoopTurn_skips_next(r) ==
    /\ fs' = r.fs
    /\ idx' = idx + 2
    /\ done' = IF r.outcome = "entry" THEN Append(done, r.entry) ELSE done
    /\ errors' = IF r.outcome \in {"not_found", "exception"}
                 THEN Append(errors, ErrorMsg(r.outcome, listing[idx]))
                 ELSE errors
    /\ UNCHANGED <<format_type, pil, window, pre, clock, pc, listing, ret,
                   last_operation, operation_history, recorded>>

\* One turn of a batch loop, r being what it did for listing[idx]
LoopTurn(r) ==
    /\ fs' = r.fs
    /\ idx' = idx + 1
    /\ done' = IF r.outcome = "entry" THEN Append(done, r.entry) ELSE done
    /\ errors' = IF r.outcome \in {"not_found", "exception"}
                 THEN Append(errors, ErrorMsg(r.outcome, listing[idx]))
                 ELSE errors
    /\ UNCHANGED <<format_type, pil, window, pre, clock, pc, listing, ret,
                   last_operation, operation_history, recorded>>

CopyStep ==
    /\ pc = "copy"
    /\ idx <= Len(listing)
    /\ LoopTurn(copy_one(fs, listing[idx]))

tracked_always(operation_type, files_info, timestamp, last, history) ==
    [last_operation |-> Operation(operation_type, files_info, timestamp),
     operation_history |->
         track_history(history, Operation(operation_type, files_info, timestamp))]

\* Lines 397-399 / 474-476: `if moved_files: self._track_operation(...)`;
\* the engine's last_operation and operation_history after the batch
tracked(operation_type, files_info, timestamp, last, history) ==
    IF files_info # <<>>
    THEN [last_operation |-> Operation(operation_type, files_info, timestamp),
          operation_history |->
              track_history(history, Operation(operation_type, files_info, timestamp))]
    ELSE [last_operation |-> last, operation_history |-> history]

\* The end of a batch: lines 397-401 / 474-478
BatchEnd(operation_type) ==
    /\ idx > Len(listing)
    /\ LET t == tracked(operation_type, done, clock, last_operation, operation_history) IN
       /\ last_operation' = t.last_operation
       /\ operation_history' = t.operation_history
    /\ recorded' = IF done # <<>>
                   THEN Append(recorded, Operation(operation_type, done, clock))
                   ELSE recorded
    /\ ret' = Ret(operation_type, "returned", done, errors, TRUE, listing)
    /\ pc' = "idle"
    /\ listing' = <<>>
    /\ idx' = 1
    /\ done' = <<>>
    /\ errors' = <<>>
    /\ UNCHANGED <<fs, format_type, pil, window, pre, clock>>

CopyEnd ==
    /\ pc = "copy"
    /\ BatchEnd("copy")

\* move(): organize_files_by_date lists the source and reads every date
\* (lines 540-551, every failure caught); it changes nothing.
MoveCall(max) ==
    /\ pc = "idle"
    /\ clock < max
    /\ clock' = clock + 1
    /\ pre' = Snapshot
    /\ UNCHANGED <<format_type, pil, window>>
    /\ IF listdir_raises(fs)
       THEN Raised("move", fs)
       ELSE /\ pc' = "scanned"
            /\ listing' \in Listings(fs)
            /\ idx' = 1
            /\ ret' = Ret("move", "running", <<>>, <<>>, FALSE, <<>>)
            /\ UNCHANGED <<fs, done, errors, last_operation, operation_history, recorded>>

MoveBegin == MoveCall(MaxBatches)

\* move_files_to_destination_folder: its os.listdir
MoveList ==
    /\ pc = "scanned"
    /\ UNCHANGED <<format_type, pil, window, pre, clock>>
    /\ IF listdir_raises(fs)
       THEN Raised("move", fs)
       ELSE /\ pc' = "move"
            /\ listing' \in IF Range(listing) = DOMAIN fs.src.items
                            THEN {listing} ELSE Listings(fs)
            /\ idx' = 1
            /\ done' = <<>>
            /\ errors' = <<>>
            /\ UNCHANGED <<fs, ret, last_operation, operation_history, recorded>>

MoveStep ==
    /\ pc = "move"
    /\ idx <= Len(listing)
    /\ LoopTurn(move_one(fs, listing[idx]))

MoveEnd ==
    /\ pc = "move"
    /\ BatchEnd("move")

Undo ==
    /\ pc = "idle"
    /\ pre' = Snapshot
    /\ LET r == undo_last_action(fs, last_operation) IN
       /\ fs' = r.fs
       /\ last_operation' = r.last_operation
       /\ ret' = Ret("undo", "returned", <<>>, <<>>, r.value, <<>>)
    /\ UNCHANGED <<format_type, pil, window, operation_history, recorded, pc, listing, idx,
                   done, errors, clock>>

\* A caller constructs a fresh engine on the same two directories
NewEngine ==
    /\ pc = "idle"
    /\ last_operation # NoOperation \/ operation_history # <<>>
    /\ last_operation' = NoOperation
    /\ operation_history' = <<>>
    /\ recorded' = <<>>
    /\ ret' = NoCall
    /\ pre' = [fs |-> fs, last_operation |-> NoOperation, operation_history |-> <<>>,
               ret |-> NoCall, prev_fs |-> fs]
    /\ UNCHANGED <<fs, format_type, pil, window, pc, listing, idx, done, errors, clock>>

Next ==
    \/ CopyBegin
    \/ CreateFolderStep
    \/ CopyList
    \/ CopyStep
    \/ CopyEnd
    \/ MoveBegin
    \/ MoveList
    \/ MoveStep
    \/ MoveEnd
    \/ Undo
    \/ NewEngine

Spec == Init /\ [][Next]_vars

\* The steps of a batch that has begun
BatchStep ==
    \/ CreateFolderStep
    \/ CopyList
    \/ CopyStep
    \/ CopyEnd
    \/ MoveList
    \/ MoveStep
    \/ MoveEnd

\* Batches alone, each run to its end
MaxFairBatches == 1

FairCopyBegin == CopyCall(MaxFairBatches)

FairMoveBegin == MoveCall(MaxFairBatches)

NextFair ==
    \/ FairCopyBegin
    \/ FairMoveBegin
    \/ BatchStep

\* The stages of a call and the values of the loop index
Stages == {"idle", "mkdir", "copy", "scanned", "move"}

\* A batch that has begun moves on: to another stage or another name of the
\* listing.  Every step of BatchStep is such a step, and in every stage but
\* idle one of its steps can be taken (idx <= Len(listing) or idx >
\* Len(listing)).
Advance ==
    /\ pc # "idle"
    /\ pc' \in Stages
    /\ idx' \in 1..(Len(listing) + 2)

\* A batch runs in the caller's thread and none of its steps waits for
\* anything, so a batch that has begun keeps moving on.
SpecFair == Init /\ [][NextFair]_vars /\ WF_<<pc, idx>>(Advance)

\* Repeated copy() calls on the same two directories, by the same engine or
\* by a fresh one
MaxReruns == 3

RerunBegin == CopyCall(MaxReruns)

NextRerun ==
    \/ RerunBegin
    \/ CreateFolderStep
    \/ CopyList
    \/ CopyStep
    \/ CopyEnd
    \/ NewEngine

SpecRerun == Init /\ [][NextRerun]_vars

\* Batches over files of every kind of date source, under every named format,
\* with and without the imaging library
D3 == Date(2022, 12, 5)

ScanPng == Name("scan", <<>>, ".png")
ShotJpeg == Name("shot", <<>>, ".jpeg")
ClipGif == Name("clip", <<>>, ".gif")
CardTxt == Name("card", <<>>, ".txt")

\* A text file, a photo with a capture date in the standard form, an image
\* without metadata, an image whose first tag is a bare "2022:12:05" and whose
\* third spells the date with dashes, an image that cannot be decoded, and a
\* photo's bytes under a .txt name.
PlacementPool ==
    [n \in {DocTxt, PhotoJpg, ScanPng, ShotJpeg, ClipGif, CardTxt} |->
        IF n = DocTxt THEN FileNode(1, D1, NoExif)
        ELSE IF n = PhotoJpg
             THEN FileNode(3, D3, Exif("tags", Put(EmptyMap, 36867, ExifValue(Canonical, D2))))
        ELSE IF n = ScanPng THEN FileNode(4, D1, NoExif)
        ELSE IF n = ShotJpeg
             THEN FileNode(5, D1, Exif("tags", Put(Put(EmptyMap, 36867, ExifValue(ColonDate, D3)),
                                                   306, ExifValue(DashDate, D3))))
        ELSE IF n = ClipGif THEN FileNode(6, D1, Exif("undecodable", EmptyMap))
        ELSE FileNode(7, D1, Exif("tags", Put(EmptyMap, 36867, ExifValue(DashDate, D2))))]

MaxPlacementBatches == 1

InitPlacement ==
    /\ format_type \in {"DD-MM-YYYY", "MM-DD-YYYY", "YYYY-MM-DD"}
    /\ pil \in BOOLEAN
    /\ window = NoWindow
    /\ \E S \in {T \in SUBSET (DOMAIN PlacementPool) : Cardinality(T) <= MaxFiles} :
       \E d \in {MissingNode, DirNode(Now, EmptyMap)} :
          fs = [src |-> DirNode(Now, [n \in S |-> PlacementPool[n]]),
                dst |-> d, dst_mode |-> "0o755"]
    /\ last_operation = NoOperation
    /\ operation_history = <<>>
    /\ recorded = <<>>
    /\ pc = "idle"
    /\ listing = <<>>
    /\ idx = 1
    /\ done = <<>>
    /\ errors = <<>>
    /\ ret = NoCall
    /\ pre = [fs |-> fs, last_operation |-> NoOperation, operation_history |-> <<>>,
              ret |-> NoCall, prev_fs |-> fs]
    /\ clock = 0

PlacementCopyBegin == CopyCall(MaxPlacementBatches)

PlacementMoveBegin == MoveCall(MaxPlacementBatches)

NextPlacement ==
    \/ PlacementCopyBegin
    \/ CreateFolderStep
    \/ CopyList
    \/ CopyStep
    \/ CopyEnd
    \/ PlacementMoveBegin
    \/ MoveList
    \/ MoveStep
    \/ MoveEnd

SpecPlacement == InitPlacement /\ [][NextPlacement]_vars

\* Date resolution and formatting as functions of their inputs: one file of
\* every kind of name and metadata, every selector value, with and without
\* the imaging library; a caller asks for the format, for a file's date
\* information or for its date folder, also for a name that is not there.
FormatSelectors ==
    {"DD-MM-YYYY", "MM-DD-YYYY", "YYYY-MM-DD", "invalid_format", "", "dd-mm-yyyy"}

ImgJPG == Name("IMG", <<>>, ".JPG")

DateNames == {DocTxt, PhotoJpg, ImgJPG}

TagTexts == {Canonical, AllColons, DashTime, ColonDate, DashDate, SlashDate, Junk, <<>>}

ExifPool ==
    {NoExif, Exif("undecodable", EmptyMap)}
    \cup {Exif("tags", Put(EmptyMap, t, ExifValue(text, D2))) :
              t \in {36867, 50971, 271}, text \in TagTexts}
    \cup {Exif("tags", Put(Put(EmptyMap, 36867, ExifValue(text, D2)),
                           306, ExifValue(DashDate, D3))) : text \in TagTexts}

InitDates ==
    /\ format_type \in FormatSelectors
    /\ pil \in BOOLEAN
    /\ window = NoWindow
    /\ \E items \in {EmptyMap} \cup
                     {Put(EmptyMap, n, FileNode(1, D1, x)) : n \in DateNames, x \in ExifPool} :
          fs = [src |-> DirNode(Now, items), dst |-> MissingNode, dst_mode |-> "0o755"]
    /\ last_operation = NoOperation
    /\ operation_history = <<>>
    /\ recorded = <<>>
    /\ pc = "idle"
    /\ listing = <<>>
    /\ idx = 1
    /\ done = <<>>
    /\ errors = <<>>
    /\ ret = NoCall
    /\ pre = [fs |-> fs, last_operation |-> NoOperation, operation_history |-> <<>>,
              ret |-> NoCall, prev_fs |-> fs]
    /\ clock = 0

\* A call that reads and changes nothing: what it gave, for which name
Read(call, outcome, value, file_name) ==
    /\ ret' = Ret(call, outcome, <<>>, <<>>, value, <<file_name>>)
    /\ UNCHANGED <<fs, format_type, pil, window, last_operation, operation_history, recorded,
                   pc, listing, idx, done, errors, pre, clock>>

\* format_date()
FormatDate ==
    /\ pc = "idle"
    /\ Read("format_date", "returned", format_date(format_type), Name("", <<>>, ""))

\* get_file_date_info(file_name): os.stat (line 188) raises for a name that
\* is not in the source directory
GetFileDateInfo ==
    /\ pc = "idle"
    /\ \E file_name \in DateNames :
          LET node == Lookup(fs, SrcPath(file_name)) IN
          IF node.kind = "missing"
          THEN Read("get_file_date_info", "raised", FALSE, file_name)
          ELSE Read("get_file_date_info", "returned",
                    get_file_date_info(file_name, node), file_name)

\* read_file_date_properties(file_name): os.stat (line 215) raises likewise
ReadFileDateProperties ==
    /\ pc = "idle"
    /\ \E file_name \in DateNames :
          LET node == Lookup(fs, SrcPath(file_name)) IN
          IF node.kind = "missing"
          THEN Read("read_file_date_properties", "raised", FALSE, file_name)
          ELSE Read("read_file_date_properties", "returned",
                    read_file_date_properties(file_name, node), file_name)

NextDates ==
    \/ FormatDate
    \/ GetFileDateInfo
    \/ ReadFileDateProperties

SpecDates == InitDates /\ [][NextDates]_vars

\* Batches and undo while somebody else deletes from the destination: a file
\* an entry of the last operation names, or a whole bucket with what it holds.
MaxCleanupBatches == 1

CleanupCopyBegin == CopyCall(MaxCleanupBatches)

CleanupMoveBegin == MoveCall(MaxCleanupBatches)

\* What os.path.exists (lines 57 and 93) finds gone
RemoveTarget ==
    /\ pc = "idle"
    /\ \E i \in DOMAIN last_operation.files :
          /\ os_path_exists(fs, last_operation.files[i].to)
          /\ fs' = Unlink(fs, last_operation.files[i].to)
    /\ UNCHANGED <<format_type, pil, window, last_operation, operation_history, recorded,
                   pc, listing, idx, done, errors, ret, pre, clock>>

RemoveBucket ==
    /\ pc = "idle"
    /\ \E i \in DOMAIN last_operation.files :
          /\ folder_exists(fs, last_operation.files[i].to.bucket)
          /\ fs' = [fs EXCEPT !.dst.items = Remove(@, last_operation.files[i].to.bucket)]
    /\ UNCHANGED <<format_type, pil, window, last_operation, operation_history, recorded,
                   pc, listing, idx, done, errors, ret, pre, clock>>

NextCleanup ==
    \/ CleanupCopyBegin
    \/ CreateFolderStep
    \/ CopyList
    \/ CopyStep
    \/ CopyEnd
    \/ CleanupMoveBegin
    \/ MoveList
    \/ MoveStep
    \/ MoveEnd
    \/ Undo
    \/ RemoveTarget
    \/ RemoveBucket

SpecCleanup == Init /\ [][NextCleanup]_vars

\* Batches and undo while faults come and go: the destination root's
\* permissions change, the source directory is deleted and made again.
MaxFaultBatches == 1

FaultCopyBegin == CopyCall(MaxFaultBatches)

FaultMoveBegin == MoveCall(MaxFaultBatches)

\* chmod of the destination root by another actor
Chmod ==
    /\ pc = "idle"
    /\ fs.dst.kind = "dir"
    /\ \E m \in {"0o755", "0o555", "0o444"} :
          /\ m # fs.dst_mode
          /\ fs' = [fs EXCEPT !.dst_mode = m]
    /\ UNCHANGED <<format_type, pil, window, last_operation, operation_history, recorded,
                   pc, listing, idx, done, errors, ret, pre, clock>>

\* The source directory is deleted with what it holds
RemoveSource ==
    /\ pc = "idle"
    /\ fs.src.kind = "dir"
    /\ fs' = [fs EXCEPT !.src = MissingNode]
    /\ UNCHANGED <<format_type, pil, window, last_operation, operation_history, recorded,
                   pc, listing, idx, done, errors, ret, pre, clock>>

\* The source directory is made again, empty
RestoreSource ==
    /\ pc = "idle"
    /\ fs.src.kind = "missing"
    /\ fs' = [fs EXCEPT !.src = DirNode(Now, EmptyMap)]
    /\ UNCHANGED <<format_type, pil, window, last_operation, operation_history, recorded,
                   pc, listing, idx, done, errors, ret, pre, clock>>

NextFault ==
    \/ FaultCopyBegin
    \/ CreateFolderStep
    \/ CopyList
    \/ CopyStep
    \/ CopyEnd
    \/ FaultMoveBegin
    \/ MoveList
    \/ MoveStep
    \/ MoveEnd
    \/ Undo
    \/ Chmod
    \/ RemoveSource
    \/ RestoreSource

SpecFault == Init /\ [][NextFault]_vars

\* A batch while another actor deletes files from the source directory and
\* puts a new one there, at any point between the call and its return.
MaxRaceBatches == 1

NewTxt == Name("new", <<>>, ".txt")

RaceCopyBegin == CopyCall(MaxRaceBatches)

RaceMoveBegin == MoveCall(MaxRaceBatches)

\* Another actor deletes a name from the source directory during the call
RemoveSourceFile ==
    /\ pc # "idle"
    /\ fs.src.kind = "dir"
    /\ \E n \in DOMAIN fs.src.items : fs' = Unlink(fs, SrcPath(n))
    /\ UNCHANGED <<format_type, pil, window, last_operation, operation_history, recorded,
                   pc, listing, idx, done, errors, ret, pre, clock>>

\* Another actor writes a new file into the source directory during the call
AddSourceFile ==
    /\ pc # "idle"
    /\ fs.src.kind = "dir"
    /\ NewTxt \notin DOMAIN fs.src.items
    /\ fs' = Store(fs, SrcPath(NewTxt), FileNode(5, Now, NoExif))
    /\ UNCHANGED <<format_type, pil, window, last_operation, operation_history, recorded,
                   pc, listing, idx, done, errors, ret, pre, clock>>

NextRace ==
    \/ RaceCopyBegin
    \/ CreateFolderStep
    \/ CopyList
    \/ CopyStep
    \/ CopyEnd
    \/ RaceMoveBegin
    \/ MoveList
    \/ MoveStep
    \/ MoveEnd
    \/ RemoveSourceFile
    \/ AddSourceFile

SpecRace == Init /\ [][NextRace]_vars

\* preview_organization() between batches, on a source directory that may
\* hold a dangling symbolic link: os.listdir names it, os.stat raises for it.
MaxPreviewBatches == 1

LinkTxt == Name("link", <<>>, ".txt")

PreviewPool ==
    [n \in (DOMAIN SourcePool) \cup {LinkTxt} |->
        IF n = LinkTxt THEN MissingNode ELSE SourcePool[n]]

InitPreview ==
    /\ format_type \in InitFormats
    /\ pil = TRUE
    /\ window = NoWindow
    /\ \E S \in {T \in SUBSET (DOMAIN PreviewPool) : Cardinality(T) <= MaxFiles} :
       \E d \in {MissingNode, DirNode(Now, EmptyMap)} :
       \E s \in {MissingNode, DirNode(Now, [n \in S |-> PreviewPool[n]])} :
          fs = [src |-> s, dst |-> d, dst_mode |-> "0o755"]
    /\ last_operation = NoOperation
    /\ operation_history = <<>>
    /\ recorded = <<>>
    /\ pc = "idle"
    /\ listing = <<>>
    /\ idx = 1
    /\ done = <<>>
    /\ errors = <<>>
    /\ ret = NoCall
    /\ pre = [fs |-> fs, last_operation |-> NoOperation, operation_history |-> <<>>,
              ret |-> NoCall, prev_fs |-> fs]
    /\ clock = 0

preview_organization_first_date_only(f, lst) ==
    LET Readable(n) == Lookup(f, SrcPath(n)).kind # "missing"
        files_with_dates == SelectSeq(lst, Readable)
        DateOf(n) == get_file_date_info(n, Lookup(f, SrcPath(n))).date
        dates == IF files_with_dates = <<>> THEN {} ELSE {DateOf(files_with_dates[1])}
    IN  [date \in dates |->
            LET HasDate(n) == DateOf(n) = date
                Info(n) == [name |-> n, date |-> date,
                            source |-> get_file_date_info(n, Lookup(f, SrcPath(n))).source]
                names == SelectSeq(files_with_dates, HasDate)
            IN  [i \in DOMAIN names |-> Info(names[i])]]

\* preview_organization() for the listing lst: date_groups, a map from date
\* folder names to the lists of file records, a name whose date cannot be
\* read (lines 502-504) left out
preview_organization(f, lst) ==
    LET Readable(n) == Lookup(f, SrcPath(n)).kind # "missing"
        files_with_dates == SelectSeq(lst, Readable)
        DateOf(n) == get_file_date_info(n, Lookup(f, SrcPath(n))).date
        dates == {DateOf(files_with_dates[i]) : i \in DOMAIN files_with_dates}
    IN  [date \in dates |->
            LET HasDate(n) == DateOf(n) = date
                Info(n) == [name |-> n, date |-> date,
                            source |-> get_file_date_info(n, Lookup(f, SrcPath(n))).source]
                names == SelectSeq(files_with_dates, HasDate)
            IN  [i \in DOMAIN names |-> Info(names[i])]]

\* preview_organization(): os.listdir raises on a missing source directory
Preview ==
    /\ pc = "idle"
    /\ pre' = Snapshot
    /\ IF listdir_raises(fs)
       THEN ret' = Ret("preview_organization", "raised", <<>>, <<>>, FALSE, <<>>)
       ELSE \E lst \in Listings(fs) :
               ret' = Ret("preview_organization", "returned", <<>>, <<>>,
                          preview_organization(fs, lst), lst)
    /\ UNCHANGED <<fs, format_type, pil, window, last_operation, operation_history, recorded,
                   pc, listing, idx, done, errors, clock>>

PreviewCopyBegin == CopyCall(MaxPreviewBatches)

PreviewMoveBegin == MoveCall(MaxPreviewBatches)

NextPreview ==
    \/ Preview
    \/ PreviewCopyBegin
    \/ CreateFolderStep
    \/ CopyList
    \/ CopyStep
    \/ CopyEnd
    \/ PreviewMoveBegin
    \/ MoveList
    \/ MoveStep
    \/ MoveEnd

SpecPreview == InitPreview /\ [][NextPreview]_vars

\* A moved file's source path is taken again before the move is undone
MaxRecreateBatches == 1

RecreateMoveBegin == MoveCall(MaxRecreateBatches)

\* Another actor writes a new file at the source path of a moved file
CreateAtSource ==
    /\ pc = "idle"
    /\ last_operation.type = "move"
    /\ fs.src.kind = "dir"
    /\ \E i \in DOMAIN last_operation.files :
          /\ ~os_path_exists(fs, last_operation.files[i].from)
          /\ fs' = Store(fs, last_operation.files[i].from, FileNode(6, Now, NoExif))
    /\ UNCHANGED <<format_type, pil, window, last_operation, operation_history, recorded,
                   pc, listing, idx, done, errors, ret, pre, clock>>

NextRecreate ==
    \/ RecreateMoveBegin
    \/ MoveList
    \/ MoveStep
    \/ MoveEnd
    \/ Undo
    \/ CreateAtSource

SpecRecreate == Init /\ [][NextRecreate]_vars

\* The window of main.py: its Copy, Move and Undo handlers, each one whole.
\* A handler runs in the Tk main loop, so none starts while another runs.
MaxClicks == 2

\* update_button_states(): the Undo button follows the truth of
\* self.file_management_logic
update_button_states(w) ==
    [w EXCEPT !.undo_button = IF w.file_management_logic # "None" THEN "normal"
                              ELSE "disabled"]

\* create_folder_with_date() over the listing: ok = FALSE is an exception.
\* (r ranges over the one result of the turn.)
RECURSIVE create_folders(_, _, _)
create_folders(f, lst, i) ==
    IF i > Len(lst) THEN Ok(f)
    ELSE CHOOSE made \in {IF r.ok THEN create_folders(r.fs, lst, i + 1) ELSE Raise(r.fs) :
                             r \in {create_folder_one(f, lst[i])}} : TRUE

\* The loop of copy_files_to_destination_folder / move_files_to_destination_folder
\* from name i on: the file system, the entries and the errors at its end
RECURSIVE batch_loop(_, _, _, _, _, _)
batch_loop(operation_type, f, lst, i, entries, errs) ==
    IF i > Len(lst) THEN [fs |-> f, done |-> entries, errors |-> errs]
    ELSE CHOOSE b \in
            {batch_loop(operation_type, r.fs, lst, i + 1,
                        IF r.outcome = "entry" THEN Append(entries, r.entry) ELSE entries,
                        IF r.outcome \in {"not_found", "exception"}
                        THEN Append(errs, ErrorMsg(r.outcome, lst[i]))
                        ELSE errs) :
                r \in {IF operation_type = "copy" THEN copy_one(f, lst[i])
                       ELSE move_one(f, lst[i])}} : TRUE

\* What _perform_operation leaves when it ends before or without a result
\* (lines 386-389, 414-416): the window holds the new engine, which has
\* recorded nothing, and the buttons are as they were
Abandoned(operation_type, outcome, f) ==
    /\ fs' = f
    /\ last_operation' = NoOperation
    /\ operation_history' = <<>>
    /\ recorded' = <<>>
    /\ window' = [window EXCEPT !.file_management_logic = "engine"]
    /\ ret' = Ret(operation_type, outcome, <<>>, <<>>, FALSE, <<>>)

\* _perform_operation(operation_type, status_message) with both folders chosen
perform_operation(operation_type) ==
    /\ pc = "idle"
    /\ clock < MaxClicks
    /\ clock' = clock + 1
    /\ pre' = Snapshot
    /\ UNCHANGED <<format_type, pil, pc, listing, idx, done, errors>>
    /\ IF listdir_raises(fs)
       THEN Abandoned(operation_type, "raised", fs)                      \* line 384 raises
       ELSE IF get_target_folder_files_count(fs) = 0
       THEN Abandoned(operation_type, "none", fs)                        \* lines 385-388
       ELSE \E lst \in Listings(fs) :
            \E made \in {IF operation_type = "copy" THEN create_folders(fs, lst, 1)
                          ELSE Ok(fs)} :
            \E b \in {batch_loop(operation_type, made.fs, lst, 1, <<>>, <<>>)} :
               LET t == tracked(operation_type, b.done, clock, NoOperation, <<>>)
               IN  IF ~made.ok
                   THEN Abandoned(operation_type, "raised", made.fs)
                   ELSE /\ fs' = b.fs
                        /\ last_operation' = t.last_operation
                        /\ operation_history' = t.operation_history
                        /\ recorded' = IF b.done # <<>>
                                       THEN <<Operation(operation_type, b.done, clock)>>
                                       ELSE <<>>
                        \* `if result:` holds for every (entries, errors) pair
                        /\ window' = update_button_states(
                                         [window EXCEPT !.file_management_logic = "engine"])
                        /\ ret' = Ret(operation_type, "returned", b.done, b.errors, TRUE, lst)

\* copy_action()
CopyAction == perform_operation("copy")

\* move_action()
MoveAction == perform_operation("move")

\* undo_action(), which a click reaches only when the button is enabled
UndoAction ==
    /\ pc = "idle"
    /\ window.undo_button = "normal"
    /\ pre' = Snapshot
    /\ UNCHANGED <<format_type, pil, operation_history, recorded, pc, listing, idx,
                   done, errors, clock>>
    /\ IF window.file_management_logic # "None"
       THEN LET r == undo_last_action(fs, last_operation) IN
            /\ fs' = r.fs
            /\ last_operation' = r.last_operation
            /\ ret' = Ret("undo", "returned", <<>>, <<>>, r.value, <<>>)
            /\ window' = IF r.value
                         THEN update_button_states(
                                  [window EXCEPT !.file_management_logic = "None"])
                         ELSE window
       ELSE /\ ret' = Ret("undo", "none", <<>>, <<>>, FALSE, <<>>)
            /\ UNCHANGED <<fs, last_operation, window>>

\* on_folder_change(): a folder is chosen again
OnFolderChange ==
    /\ pc = "idle"
    /\ window' = update_button_states(window)
    /\ UNCHANGED <<fs, format_type, pil, last_operation, operation_history, recorded,
                   pc, listing, idx, done, errors, ret, pre, clock>>

NextGui ==
    \/ CopyAction
    \/ MoveAction
    \/ UndoAction
    \/ OnFolderChange

SpecGui == Init /\ [][NextGui]_vars

\* One engine instance through more batches than operation_history keeps:
\* copy() and move() in any order, on a source directory of at most one name
MaxHistoryBatches == 11

InitHistory ==
    /\ Init
    /\ fs.src.kind = "dir" => Cardinality(DOMAIN fs.src.items) <= 1

HistoryCopyBegin == CopyCall(MaxHistoryBatches)

HistoryMoveBegin == MoveCall(MaxHistoryBatches)

NextHistory ==
    \/ HistoryCopyBegin
    \/ CreateFolderStep
    \/ CopyList
    \/ CopyStep
    \/ CopyEnd
    \/ HistoryMoveBegin
    \/ MoveList
    \/ MoveStep
    \/ MoveEnd

SpecHistory == InitHistory /\ [][NextHistory]_vars

-----------------------------------------------------------------------------
(* Properties.  A property about a call is stated in the state the call     *)
(* leaves: ret is what it gave, pre the state it started in.                *)

Returned(call) == ret.call = call /\ ret.outcome = "returned"

Entries(r) == Range(r.entries)

\* The bucket a source name goes to in file system f
BucketOf(f, n) == get_file_date_info(n, f.src.items[n]).date

\* f has a source directory of regular files only, and a destination that is
\* absent or a writable directory in which no planned path is taken
CleanStart(f) ==
    /\ f.src.kind = "dir"
    /\ \A n \in DOMAIN f.src.items : f.src.items[n].kind = "file"
    /\ f.dst.kind = "dir" => f.dst_mode = "0o755"
    /\ \A n \in DOMAIN f.src.items :
          /\ BucketNode(f, BucketOf(f, n)).kind # "file"
          /\ ~os_path_exists(f, DstPath(BucketOf(f, n), n))

\* What copy totality says of the files: N entries, no error, the source
\* as it was, every destination file a copy of its source
CopiedAll ==
    /\ ret.outcome = "returned"
    /\ Len(ret.entries) = Cardinality(DOMAIN pre.fs.src.items)
    /\ ret.errors = <<>>
    /\ fs.src = pre.fs.src
    /\ \A e \in Entries(ret) :
          /\ Lookup(fs, e.to).kind = "file"
          /\ Lookup(fs, e.to).data = Lookup(fs, e.from).data

\* C1 as stated: after copy() from a source of N regular files into a
\* destination without colliding names, there are N entries and no errors,
\* the source is unchanged, every destination file has its source's content,
\* and last_operation is a 'copy' operation.
C1_CopyTotalityAsStated ==
    (ret.call = "copy" /\ ret.outcome # "running" /\ CleanStart(pre.fs))
        => (CopiedAll /\ last_operation.type = "copy")

\* C1 amended: the same, except that last_operation is the 'copy' operation
\* of the returned entries only when N >= 1; with N = 0 nothing is recorded
\* and last_operation is what it was.
C1_CopyTotality ==
    (ret.call = "copy" /\ ret.outcome # "running" /\ CleanStart(pre.fs))
        => /\ CopiedAll
           /\ IF ret.entries # <<>>
              THEN last_operation.type = "copy" /\ last_operation.files = ret.entries
              ELSE last_operation = pre.last_operation

C1_Witness ==
    /\ Returned("copy")
    /\ CleanStart(pre.fs)
    /\ Len(ret.entries) = 2
    /\ \E e1, e2 \in Entries(ret) : e1.date_folder # e2.date_folder
    /\ last_operation.type = "copy"

\* What move totality says of the files: N entries, no error, the source
\* left empty, every destination path present
MovedAll ==
    /\ ret.outcome = "returned"
    /\ Len(ret.entries) = Cardinality(DOMAIN pre.fs.src.items)
    /\ ret.errors = <<>>
    /\ DOMAIN fs.src.items = {}
    /\ \A e \in Entries(ret) :
          /\ ~os_path_exists(fs, e.from)
          /\ os_path_exists(fs, e.to)

\* C2 as stated: after move() from a source of N regular files into a
\* destination without colliding names, there are N entries and no errors,
\* the source is empty, every destination path exists, and last_operation is
\* a 'move' operation.
C2_MoveTotalityAsStated ==
    (ret.call = "move" /\ ret.outcome # "running" /\ CleanStart(pre.fs))
        => (MovedAll /\ last_operation.type = "move")

\* C2 amended: the same, except that last_operation is the 'move' operation
\* of the returned entries only when N >= 1; with N = 0 it is what it was.
C2_MoveTotality ==
    (ret.call = "move" /\ ret.outcome # "running" /\ CleanStart(pre.fs))
        => /\ MovedAll
           /\ IF ret.entries # <<>>
              THEN last_operation.type = "move" /\ last_operation.files = ret.entries
              ELSE last_operation = pre.last_operation

C2_Witness ==
    /\ Returned("move")
    /\ CleanStart(pre.fs)
    /\ Len(ret.entries) = 2
    /\ DOMAIN fs.src.items = {}
    /\ last_operation.type = "move"

\* The call before this undo, on the same engine, was a batch of this kind
\* that returned and recorded its entries
UndoFollows(kind) ==
    /\ ret.call = "undo"
    /\ pre.ret.call = kind
    /\ pre.ret.outcome = "returned"
    /\ pre.ret.entries # <<>>

\* C3: undo_last_action() right after a successful copy() returns true; no
\* destination path of the copy's entries exists any more; no bucket of an
\* entry is left behind empty; the source is what it was before the copy.
C3_UndoReversesCopy ==
    UndoFollows("copy")
        => /\ ret.value = TRUE
           /\ \A e \in Entries(pre.ret) : ~os_path_exists(fs, e.to)
           /\ \A e \in Entries(pre.ret) :
                 BucketNode(fs, e.to.bucket).kind = "dir"
                     => DOMAIN BucketNode(fs, e.to.bucket).items # {}
           /\ fs.src = pre.prev_fs.src

C3_Witness ==
    /\ UndoFollows("copy")
    /\ ret.value = TRUE
    /\ Len(pre.ret.entries) = 2
    /\ \E e \in Entries(pre.ret) : e.to.bucket \notin DOMAIN fs.dst.items
    /\ \E e \in Entries(pre.ret) : e.to.bucket \in DOMAIN fs.dst.items

\* C4: undo_last_action() right after a successful move() returns true, and
\* every moved file is back in the source under its original name with its
\* original content, also a file the destination held under a suffixed name;
\* the source directory is what it was before the move.
C4_UndoReversesMove ==
    UndoFollows("move")
        => /\ ret.value = TRUE
           /\ \A e \in Entries(pre.ret) :
                 /\ e.from = SrcPath(e.file)
                 /\ Lookup(fs, e.from) = Lookup(pre.prev_fs, e.from)
                 /\ Lookup(fs, e.from).kind # "missing"
           /\ fs.src = pre.prev_fs.src

C4_Witness ==
    /\ UndoFollows("move")
    /\ ret.value = TRUE
    /\ Len(pre.ret.entries) = 2
    /\ \E e \in Entries(pre.ret) : e.to.name # e.file
    /\ DOMAIN fs.src.items = {e.file : e \in Entries(pre.ret)}

\* A copy() that returned without errors and stored every entry under its
\* name with counter k (k = 0: the plain name)
RunStoredAs(r, k) ==
    /\ r.call = "copy"
    /\ r.outcome = "returned"
    /\ r.entries # <<>>
    /\ r.errors = <<>>
    /\ \A e \in Entries(r) :
          e.to.name = IF k = 0 THEN e.file ELSE SuffixedName(e.file, k)

\* Every file of the destination tree of f is in g, unchanged
DestinationKept(f, g) ==
    \A b \in DOMAIN f.dst.items :
       /\ b \in DOMAIN g.dst.items
       /\ g.dst.items[b].kind = f.dst.items[b].kind
       /\ g.dst.items[b].data = f.dst.items[b].data
       /\ \A n \in DOMAIN f.dst.items[b].items :
             /\ n \in DOMAIN g.dst.items[b].items
             /\ g.dst.items[b].items[n] = f.dst.items[b].items[n]

\* C5 as stated: the copy() after a run that stored every file under its
\* plain name stores every file as stem_1.ext, the one after that as
\* stem_2.ext, and so on; N entries, no errors, earlier files kept.
C5_RerunAsStated ==
    \A k \in 0..MaxReruns :
       (ret.call = "copy" /\ ret.outcome # "running" /\ RunStoredAs(pre.ret, k))
           => /\ RunStoredAs(ret, k + 1)
              /\ Len(ret.entries) = Len(ret.listing)
              /\ DestinationKept(pre.fs, fs)

\* The state of a re-run: regular files only in the source, a writable
\* destination in which every file's plain destination path is taken
RerunStart(f) ==
    /\ f.src.kind = "dir"
    /\ DOMAIN f.src.items # {}
    /\ f.dst.kind = "dir" /\ f.dst_mode = "0o755"
    /\ \A n \in DOMAIN f.src.items :
          /\ f.src.items[n].kind = "file"
          /\ Lookup(f, DstPath(BucketOf(f, n), n)).kind = "file"

\* name is file_name with the smallest counter k >= 1 whose name is free in
\* the bucket: the plain name and every smaller counter's name are there
SmallestFree(f, bucket, file_name, name) ==
    \E k \in 1..Cardinality(DOMAIN BucketNode(f, bucket).items) :
       /\ name = SuffixedName(file_name, k)
       /\ os_path_exists(f, DstPath(bucket, file_name))
       /\ \A j \in 1..(k - 1) : os_path_exists(f, DstPath(bucket, SuffixedName(file_name, j)))

\* C5 amended: a copy() run while every source file's plain destination name
\* is taken returns N entries and no errors, writes every file to a path that
\* did not exist before the run, named stem_k.ext in the file's bucket for the
\* smallest k >= 1 whose name was free, and leaves every file the destination
\* held before the run in place and unchanged.
C5_RerunWithoutOverwrite ==
    (ret.call = "copy" /\ ret.outcome # "running" /\ RerunStart(pre.fs))
        => /\ ret.outcome = "returned"
           /\ Len(ret.entries) = Cardinality(DOMAIN pre.fs.src.items)
           /\ ret.errors = <<>>
           /\ \A e \in Entries(ret) :
                 /\ ~os_path_exists(pre.fs, e.to)
                 /\ e.to.bucket = e.date_folder
                 /\ SmallestFree(fs, e.to.bucket, e.file, e.to.name)
                 /\ Lookup(fs, e.to).data = Lookup(fs, e.from).data
           /\ DestinationKept(pre.fs, fs)

\* The third run, by a fresh engine, stores a file with counter 2
C5_Witness ==
    /\ Returned("copy")
    /\ RerunStart(pre.fs)
    /\ clock = 3
    /\ Len(operation_history) = 1
    /\ \E e \in Entries(ret) : e.to.name = SuffixedName(e.file, 2)

\* C6 as stated: with a read-only destination root and files in the source,
\* copy() and move() return (entries, errors) with an error for the files
\* that failed instead of raising.
C6_ReadOnlyDestinationAsStated ==
    (/\ ret.call \in {"copy", "move"}
     /\ ret.outcome # "running"
     /\ pre.fs.src.kind = "dir"
     /\ DOMAIN pre.fs.src.items # {}
     /\ pre.fs.dst.kind = "dir"
     /\ pre.fs.dst_mode = "0o444")
        => /\ ret.outcome = "returned"
           /\ ret.errors # <<>>
           /\ {ret.errors[i].file : i \in DOMAIN ret.errors} = Range(ret.listing)

\* C7: undo_last_action() on an engine without a last operation returns
\* false and changes neither the file system nor last_operation nor
\* operation_history.
C7_UndoWithNothingToUndo ==
    (ret.call = "undo" /\ pre.last_operation = NoOperation)
        => /\ ret.outcome = "returned"
           /\ ret.value = FALSE
           /\ fs = pre.fs
           /\ last_operation = NoOperation
           /\ operation_history = pre.operation_history

\* The engine's only batch so far returned without entries
C7_Witness ==
    /\ ret.call = "undo"
    /\ pre.last_operation = NoOperation
    /\ pre.ret.call \in {"copy", "move"}
    /\ pre.ret.outcome = "returned"
    /\ pre.ret.entries = <<>>
    /\ pre.ret.errors # <<>>
    /\ ret.value = FALSE

\* C8: an undo_last_action() that returns true leaves last_operation none,
\* and the undo_last_action() right after it returns false and leaves the
\* file system as it is, whatever operation_history holds.
C8_SingleLevelUndo ==
    /\ (ret.call = "undo" /\ ret.value = TRUE) => last_operation = NoOperation
    /\ (ret.call = "undo" /\ pre.ret.call = "undo" /\ pre.ret.value = TRUE)
          => /\ ret.value = FALSE
             /\ fs = pre.fs
             /\ last_operation = NoOperation

\* The second undo in a row, with two operations in operation_history
C8_Witness ==
    /\ ret.call = "undo"
    /\ pre.ret.call = "undo"
    /\ pre.ret.value = TRUE
    /\ ret.value = FALSE
    /\ Len(operation_history) = 2

\* C9: copy() and move() on a missing source directory raise; the file
\* system, last_operation and operation_history are what they were.
C9_MissingSourceIsFatal ==
    (ret.call \in {"copy", "move"} /\ pre.fs.src.kind = "missing")
        => /\ ret.outcome = "raised"
           /\ fs = pre.fs
           /\ last_operation = pre.last_operation
           /\ operation_history = pre.operation_history

C9_Witness ==
    /\ ret.call = "move"
    /\ pre.fs.src.kind = "missing"
    /\ ret.outcome = "raised"
    /\ pre.ret.call = "copy"
    /\ pre.ret.outcome = "raised"
    /\ pre.fs.dst.kind = "dir"

CountOf(seq, file_name) == Cardinality({i \in DOMAIN seq : seq[i].file = file_name})

\* C10: when copy() or move() returns, every name of the listing has exactly
\* one entry or exactly one error, never both, so that entries and errors
\* together are as many as the names listed; the names after a failed one
\* are processed too.
C10_NoFailureDropped ==
    (ret.call \in {"copy", "move"} /\ ret.outcome = "returned")
        => /\ \A n \in Range(ret.listing) :
                 CountOf(ret.entries, n) + CountOf(ret.errors, n) = 1
           /\ Len(ret.entries) + Len(ret.errors) = Len(ret.listing)
           /\ \A i \in DOMAIN ret.entries : ret.entries[i].file \in Range(ret.listing)
           /\ \A i \in DOMAIN ret.errors : ret.errors[i].file \in Range(ret.listing)

\* The first name listed failed and the second was transferred
C10_Witness ==
    /\ ret.call \in {"copy", "move"}
    /\ ret.outcome = "returned"
    /\ Len(ret.listing) = 2
    /\ Len(ret.errors) = 1
    /\ Len(ret.entries) = 1
    /\ ret.errors[1].file = ret.listing[1]
    /\ ret.entries[1].file = ret.listing[2]


\* C11: a copy() or move() that returns no entries leaves last_operation and
\* operation_history exactly as they were; one that returns entries sets
\* last_operation to an operation of the call's kind whose files are the
\* returned entries, and appends that operation to operation_history.
C11_RecordedOnlyOnSuccess ==
    (ret.call \in {"copy", "move"} /\ ret.outcome = "returned")
        => IF ret.entries = <<>>
           THEN /\ last_operation = pre.last_operation
                /\ operation_history = pre.operation_history
           ELSE /\ last_operation.type = ret.call
                /\ last_operation.files = ret.entries
                /\ operation_history =
                       IF Len(pre.operation_history) < HistoryLimit
                       THEN Append(pre.operation_history, last_operation)
                       ELSE Append(Tail(pre.operation_history), last_operation)

\* A batch without entries after a recorded move: the move stays undoable
C11_Witness ==
    /\ ret.call \in {"copy", "move"}
    /\ ret.outcome = "returned"
    /\ ret.entries = <<>>
    /\ pre.last_operation.type = "move"
    /\ last_operation = pre.last_operation
    /\ \A e \in Range(last_operation.files) : os_path_exists(fs, e.to)


\* The last n elements of seq
LastN(seq, n) == SubSeq(seq, Len(seq) - n + 1, Len(seq))

Min(a, b) == IF a < b THEN a ELSE b

\* C12: in every state of one engine operation_history holds at most 10
\* operations; after k batches that recorded an operation it holds the most
\* recent min(k, 10) of them, oldest first.
C12_BoundedHistory ==
    /\ Len(operation_history) <= 10
    /\ operation_history = LastN(recorded, Min(Len(recorded), 10))

\* The eleventh recorded batch, a move after ten copies, has evicted the first
C12_Witness ==
    /\ Len(recorded) = 11
    /\ Len(operation_history) = 10
    /\ operation_history[1] = recorded[2]
    /\ operation_history[10] = recorded[11]
    /\ recorded[1].type = "copy"
    /\ recorded[11].type = "move"
    /\ pc = "idle"


\* The regular files of the source directory of f
RegularFiles(f) == {n \in DOMAIN f.src.items : f.src.items[n].kind = "file"}

\* C13 as stated: a subdirectory of the source is ignored by copy() and
\* move(): no entry and no error names it, it stays in the source as it was,
\* every bucket the batch creates is the bucket of a regular file, and the
\* file count of the source is the number of its regular files.
C13_OnlyRegularFilesAsStated ==
    (ret.call \in {"copy", "move"} /\ ret.outcome = "returned")
        => /\ \A n \in DOMAIN pre.fs.src.items :
                 pre.fs.src.items[n].kind = "dir"
                     => /\ CountOf(ret.entries, n) = 0
                        /\ CountOf(ret.errors, n) = 0
                        /\ Lookup(fs, SrcPath(n)) = pre.fs.src.items[n]
           /\ \A b \in DOMAIN fs.dst.items :
                 (pre.fs.dst.kind = "dir" => b \notin DOMAIN pre.fs.dst.items)
                     => \E n \in RegularFiles(pre.fs) : b = BucketOf(pre.fs, n)
           /\ get_target_folder_files_count(pre.fs) = Cardinality(RegularFiles(pre.fs))


\* The tag ids of the node whose value spells a date in one of the forms
\* metadata dates are written in: the standard "YYYY:MM:DD HH:MM:SS",
\* "YYYY-MM-DD" and "YYYY/MM/DD"
UsableTags(node) ==
    {t \in Range(date_fields) \cap DOMAIN node.exif.tags :
        node.exif.tags[t].text \in {Canonical, DashDate, SlashDate}}

\* A recognised image file with usable metadata
HasUsableMetadata(file_name, node) ==
    /\ pil
    /\ lower(file_name.ext) \in image_extensions
    /\ node.kind = "file"
    /\ node.exif.state = "tags"
    /\ UsableTags(node) # {}

\* The date of the first usable tag in the order of date_fields
MetadataDate(node) ==
    LET i == CHOOSE i \in DOMAIN date_fields :
                 /\ date_fields[i] \in UsableTags(node)
                 /\ \A j \in 1..(i - 1) : date_fields[j] \notin UsableTags(node)
    IN  node.exif.tags[date_fields[i]].date

\* C14 as stated: every entry of copy() or move() has its destination path
\* in the bucket that is its recorded date folder, and the file is there; the
\* bucket is the resolved date in the engine's format, the resolved date
\* being the metadata date for a recognised image with usable metadata and the
\* modification time for every other file.
C14_BucketPlacementAsStated ==
    (ret.call \in {"copy", "move"} /\ ret.outcome = "returned")
        => \A e \in Entries(ret) :
              LET node == pre.fs.src.items[e.file]
                  resolved == IF HasUsableMetadata(e.file, node)
                              THEN MetadataDate(node) ELSE node.mtime
              IN  /\ e.to.root = "dst"
                  /\ e.to.bucket = e.date_folder
                  /\ e.date_folder = strftime(resolved, format_date(format_type))
                  /\ Lookup(fs, e.to).kind = "file"
                  /\ BucketNode(fs, e.to.bucket).kind = "dir"


\* The bucket name of a date under a selector value, as the claim gives it
NamedBucket(selector, date) ==
    IF selector = "DD-MM-YYYY" THEN <<date.d, date.m, date.y>>
    ELSE IF selector = "MM-DD-YYYY" THEN <<date.m, date.d, date.y>>
    ELSE <<date.y, date.m, date.d>>

\* C15: DD-MM-YYYY, MM-DD-YYYY and YYYY-MM-DD give day-month-year,
\* month-day-year and year-month-day bucket names; every other selector value
\* gives the naming of YYYY-MM-DD, and no call fails because of the selector.
C15_FormatDefault ==
    /\ ret.call = "format_date"
          => /\ ret.outcome = "returned"
             /\ \A d \in {D1, D2, D3} : strftime(d, ret.value) = NamedBucket(format_type, d)
             /\ format_type \notin {"DD-MM-YYYY", "MM-DD-YYYY"}
                   => ret.value = format_date("YYYY-MM-DD")
    /\ (ret.call = "get_file_date_info" /\ ret.outcome = "returned")
          => ret.value.date = NamedBucket(format_type, ret.value.original_date)
    /\ (ret.call \in {"get_file_date_info", "read_file_date_properties"}
           /\ ret.outcome = "raised")
          => ~os_path_exists(fs, SrcPath(ret.listing[1]))

\* An unknown selector value has given the year-month-day naming
C15_Witness ==
    /\ ret.call = "get_file_date_info"
    /\ ret.outcome = "returned"
    /\ format_type = "invalid_format"
    /\ ret.value.date = <<ret.value.original_date.y, ret.value.original_date.m,
                          ret.value.original_date.d>>


\* No tag of the node's metadata parses: each one searched is absent, empty
\* or fails to parse
NoTagParses(node) ==
    \A t \in Range(date_fields) \cap DOMAIN node.exif.tags :
       node.exif.tags[t].text = <<>> \/ ParseTag(node.exif.tags[t]) = NoDate

\* C16 as stated: get_file_date_info() returns for every file name handed to
\* it, with source 'EXIF data' or 'File modification time'; when the imaging
\* library is missing, the image cannot be decoded, it has no metadata or no
\* tag parses, the date is the modification time and the source says so.
C16_DateResolutionNeverFailsAsStated ==
    ret.call = "get_file_date_info"
        => /\ ret.outcome = "returned"
           /\ ret.value.source \in {"EXIF data", "File modification time"}
           /\ LET node == Lookup(fs, SrcPath(ret.listing[1])) IN
              (~pil \/ node.exif.state # "tags" \/ NoTagParses(node))
                  => /\ ret.value.original_date = node.mtime
                     /\ ret.value.source = "File modification time"


\* The entries of the operation the undo found as last_operation
Pending == Range(pre.last_operation.files)

\* C17: an undo_last_action() that finds some or all recorded destination
\* paths gone skips those entries, reverses every entry whose destination path
\* exists (a copy is deleted, a moved file is back at its source path as it
\* was in the destination), returns true and clears last_operation.
C17_UndoToleratesMissingTargets ==
    (ret.call = "undo" /\ pre.last_operation # NoOperation
       /\ \E e \in Pending : ~os_path_exists(pre.fs, e.to))
        => /\ ret.value = TRUE
           /\ last_operation = NoOperation
           /\ \A e \in Pending :
                 IF os_path_exists(pre.fs, e.to)
                 THEN /\ ~os_path_exists(fs, e.to)
                      /\ pre.last_operation.type = "move"
                            => Lookup(fs, e.from) = Lookup(pre.fs, e.to)
                      /\ pre.last_operation.type = "copy"
                            => Lookup(fs, e.from) = Lookup(pre.fs, e.from)
                 ELSE /\ ~os_path_exists(fs, e.to)
                      /\ Lookup(fs, e.from) = Lookup(pre.fs, e.from)

\* One copy of two was deleted before the undo, which removed the other
C17_Witness ==
    /\ ret.call = "undo"
    /\ pre.last_operation.type = "copy"
    /\ Len(pre.last_operation.files) = 2
    /\ \E e \in Pending : ~os_path_exists(pre.fs, e.to)
    /\ \E e \in Pending : os_path_exists(pre.fs, e.to) /\ ~os_path_exists(fs, e.to)
    /\ ret.value = TRUE
    /\ last_operation = NoOperation


\* The entries the undo reversed: their destination path was there
UndoneEntries == {e \in Pending : os_path_exists(pre.fs, e.to)}

\* What bucket b held before the undo apart from the undone files
RestOf(b) ==
    LET was == pre.fs.dst.items[b].items
        gone == {e.to.name : e \in {u \in UndoneEntries : u.to.bucket = b}}
    IN  [n \in (DOMAIN was) \ gone |-> was[n]]

\* C18: after an undo that returned true, a bucket that held an undone file
\* is deleted if and only if nothing else is left in it, and one that is kept
\* holds what it held apart from the undone files; every other bucket is as
\* it was, also an empty one; no undo deletes the destination root or the
\* source directory.
C18_ShallowCleanup ==
    /\ (ret.call = "undo" /\ ret.value = TRUE /\ pre.last_operation # NoOperation)
          => /\ \A b \in {e.to.bucket : e \in UndoneEntries} :
                   IF DOMAIN RestOf(b) = {}
                   THEN b \notin DOMAIN fs.dst.items
                   ELSE /\ b \in DOMAIN fs.dst.items
                        /\ fs.dst.items[b].kind = "dir"
                        /\ fs.dst.items[b].items = RestOf(b)
             /\ \A b \in (DOMAIN pre.fs.dst.items) \ {e.to.bucket : e \in UndoneEntries} :
                   /\ b \in DOMAIN fs.dst.items
                   /\ fs.dst.items[b] = pre.fs.dst.items[b]
    /\ ret.call = "undo"
          => /\ fs.dst.kind = pre.fs.dst.kind
             /\ fs.src.kind = pre.fs.src.kind

\* An undo of two entries: one bucket kept with the file it held before, one
\* bucket deleted, and the destination root still there
C18_Witness ==
    /\ ret.call = "undo"
    /\ ret.value = TRUE
    /\ \E e \in UndoneEntries :
          /\ e.to.bucket \in DOMAIN fs.dst.items
          /\ DOMAIN fs.dst.items[e.to.bucket].items = {KeepTxt}
    /\ \E e \in UndoneEntries : e.to.bucket \notin DOMAIN fs.dst.items
    /\ fs.dst.kind = "dir"


\* A filesystem step of the undo failed: a recorded file the undo found is
\* still at its destination path, or a bucket the undo emptied is still there
UndoStepFailed ==
    \/ \E e \in UndoneEntries : os_path_exists(fs, e.to)
    \/ \E e \in UndoneEntries :
          /\ ~os_path_exists(fs, e.to)
          /\ BucketNode(fs, e.to.bucket).kind = "dir"
          /\ DOMAIN BucketNode(fs, e.to.bucket).items = {}

\* C19 as stated: undo_last_action() never raises; when a filesystem step of
\* the undo fails it returns false and leaves last_operation unchanged; an
\* undo called after a failed one, with the fault gone, leaves no recorded
\* destination path in place and returns true.
C19_UndoFailsClosedAsStated ==
    (ret.call = "undo" /\ pre.last_operation # NoOperation)
        => /\ ret.outcome = "returned"
           /\ UndoStepFailed
                 => (ret.value = FALSE /\ last_operation = pre.last_operation)
           /\ (/\ pre.ret.call = "undo"
               /\ pre.ret.value = FALSE
               /\ pre.fs.src.kind = "dir"
               /\ pre.fs.dst_mode = "0o755")
                 => /\ ret.value = TRUE
                    /\ \A e \in Pending : ~os_path_exists(fs, e.to)


\* C20 as stated: a copy() or move() during which another actor deletes or
\* adds source files still returns (entries, errors); a file that was not in
\* the source directory when the call started is not transferred; every file
\* that was there has exactly one entry or one error, a deleted one included.
C20_SourceChangesAsStated ==
    (/\ ret.call \in {"copy", "move"}
     /\ ret.outcome # "running"
     /\ pre.fs.src.kind = "dir"
     /\ pre.fs.dst.kind = "dir" => pre.fs.dst_mode = "0o755")
        => /\ ret.outcome = "returned"
           /\ \A e \in Entries(ret) : e.file \in DOMAIN pre.fs.src.items
           /\ \A n \in DOMAIN pre.fs.src.items :
                 CountOf(ret.entries, n) + CountOf(ret.errors, n) = 1


\* The places <<date folder, position>> of the grouping g that hold name n
PlacesOf(g, n) ==
    {p \in UNION {{<<d, i>> : i \in DOMAIN g[d]} : d \in DOMAIN g} : g[p[1]][p[2]].name = n}

\* C21: preview_organization() returns a grouping by date folder name in
\* which every listed name whose date can be read is in exactly one group,
\* the group of its date folder, and nothing else is in any group; the file
\* system, last_operation and operation_history are what they were.
C21_PreviewReadOnly ==
    ret.call = "preview_organization"
        => /\ fs = pre.fs
           /\ last_operation = pre.last_operation
           /\ operation_history = pre.operation_history
           /\ ret.outcome = "returned"
                 => LET g == ret.value
                        readable == {n \in Range(ret.listing) : os_path_exists(fs, SrcPath(n))}
                    IN  /\ \A n \in readable :
                              /\ Cardinality(PlacesOf(g, n)) = 1
                              /\ \A p \in PlacesOf(g, n) : p[1] = BucketOf(fs, n)
                        /\ \A n \in Range(ret.listing) \ readable : PlacesOf(g, n) = {}
                        /\ Cardinality(UNION {{<<d, i>> : i \in DOMAIN g[d]} : d \in DOMAIN g})
                              = Cardinality(readable)
                        /\ \A d \in DOMAIN g : g[d] # <<>>

\* A preview of a file and a dangling link: one group, the link in none
C21_Witness ==
    /\ ret.call = "preview_organization"
    /\ ret.outcome = "returned"
    /\ Cardinality(DOMAIN ret.value) = 1
    /\ LinkTxt \in Range(ret.listing)
    /\ PlacesOf(ret.value, LinkTxt) = {}


\* C22: whatever the destination held, every entry of copy() or move() was
\* written to a path that did not exist before the batch, under the plain
\* name or, when that was taken, under stem_k.ext for the smallest k >= 1
\* whose path was unused; every directory and file the destination held
\* before the batch is still there, unchanged.
C22_NoOverwrite ==
    (ret.call \in {"copy", "move"} /\ ret.outcome # "running")
        => /\ \A e \in Entries(ret) :
                 /\ ~os_path_exists(pre.fs, e.to)
                 /\ os_path_exists(fs, e.to)
                 /\ e.to.name # e.file
                       => SmallestFree(fs, e.to.bucket, e.file, e.to.name)
           /\ pre.fs.dst.kind = "dir" => DestinationKept(pre.fs, fs)

\* A move into a bucket that held a foreign doc.txt: the file is stored as
\* doc_1.txt and the foreign file is as it was
C22_Witness ==
    /\ Returned("move")
    /\ \E e \in Entries(ret) :
          /\ e.file = DocTxt
          /\ e.to.name = SuffixedName(DocTxt, 1)
          /\ Lookup(pre.fs, DstPath(e.to.bucket, DocTxt)).data = 9
          /\ Lookup(fs, DstPath(e.to.bucket, DocTxt)).data = 9
          /\ Lookup(fs, e.to).data = 1


\* The operations the engine holds: the last one and the history
HeldOperations ==
    Range(operation_history) \cup (IF last_operation = NoOperation THEN {} ELSE {last_operation})

\* C23: in every operation recorded by copy() or move(), no two entries have
\* the same destination path, also when source names collide with files the
\* destination held or with each other's suffixed names.
C23_UniqueDestinationPaths ==
    /\ \A op \in HeldOperations \cup Range(recorded) :
          \A i, j \in DOMAIN op.files :
             i # j => op.files[i].to # op.files[j].to
    /\ ret.call \in {"copy", "move"}
          => \A i, j \in DOMAIN ret.entries :
                i # j => ret.entries[i].to # ret.entries[j].to

\* doc.txt and doc_1.txt go to one bucket that held a foreign doc.txt:
\* doc.txt is stored as doc_1.txt and doc_1.txt as doc_1_1.txt
C23_Witness ==
    /\ last_operation # NoOperation
    /\ \E i, j \in DOMAIN last_operation.files :
          LET a == last_operation.files[i]
              b == last_operation.files[j]
          IN  /\ a.file = DocTxt
              /\ b.file = Doc1Txt
              /\ a.to.bucket = b.to.bucket
              /\ a.to.name = Doc1Txt
              /\ b.to.name = SuffixedName(Doc1Txt, 1)
              /\ Lookup(fs, DstPath(a.to.bucket, DocTxt)).data = 9


\* The batch before the last one in history h, and the last one
BatchA(h) == h[Len(h) - 1]

BatchB(h) == h[Len(h)]

\* The destination paths of operation op
ToPaths(op) == {op.files[i].to : i \in DOMAIN op.files}

\* An undo that starts right after batch B returned, B having started on the
\* same engine with every file of the batch A before it in place
UndoAfterAThenB ==
    /\ UndoFollows(pre.ret.call)
    /\ pre.ret.call \in {"copy", "move"}
    /\ Len(pre.operation_history) >= 2
    /\ pre.last_operation = BatchB(pre.operation_history)
    /\ \A p \in ToPaths(BatchA(pre.operation_history)) : os_path_exists(pre.prev_fs, p)

\* C24: after two successful batches A then B on one engine, undo_last_action()
\* returns true and reverses the entries of B and nothing else: no path of B
\* is left, a moved file of B is back at its source path, every file placed by
\* A and every other file of the destination is where and what it was;
\* last_operation is cleared although A is still in the history, and an undo
\* that follows a successful undo returns false and changes nothing.
C24_OnlyLastUndoable ==
    /\ UndoAfterAThenB
          => LET A == BatchA(pre.operation_history)
                 B == BatchB(pre.operation_history)
             IN  /\ ret.value = TRUE
                 /\ \A p \in ToPaths(B) : ~os_path_exists(fs, p)
                 /\ \A i \in DOMAIN B.files :
                       /\ os_path_exists(fs, B.files[i].from)
                       /\ B.type = "move"
                             => Lookup(fs, B.files[i].from) = Lookup(pre.fs, B.files[i].to)
                 /\ B.type = "copy" => fs.src = pre.fs.src
                 /\ \A p \in ToPaths(A) :
                       /\ p \notin ToPaths(B)
                       /\ Lookup(fs, p) = Lookup(pre.prev_fs, p)
                 /\ \A b \in DOMAIN pre.fs.dst.items :
                       pre.fs.dst.items[b].kind = "dir"
                          => \A n \in DOMAIN pre.fs.dst.items[b].items :
                                DstPath(b, n) \notin ToPaths(B)
                                   => Lookup(fs, DstPath(b, n)) = Lookup(pre.fs, DstPath(b, n))
                 /\ last_operation = NoOperation
                 /\ A \in Range(operation_history)
    /\ (ret.call = "undo" /\ pre.ret.call = "undo" /\ pre.ret.value = TRUE)
          => /\ ret.value = FALSE
             /\ fs = pre.fs
             /\ last_operation = NoOperation

\* A copy A, then a move B stored under suffixed names, then two undos: the
\* first put the files of B back in the source, the second returned false,
\* and the copies A made are still in their bucket
C24_Witness ==
    /\ ret.call = "undo"
    /\ ret.value = FALSE
    /\ pre.ret.call = "undo"
    /\ pre.ret.value = TRUE
    /\ Len(operation_history) >= 2
    /\ LET A == BatchA(operation_history)
           B == BatchB(operation_history)
       IN  /\ A.type = "copy"
           /\ B.type = "move"
           /\ \A p \in ToPaths(A) : os_path_exists(fs, p)
           /\ \A i \in DOMAIN B.files :
                 /\ ~os_path_exists(fs, B.files[i].to)
                 /\ os_path_exists(fs, B.files[i].from)
                 /\ B.files[i].to.name = SuffixedName(B.files[i].file, 1)


\* The tags of the node that are present, non-empty and parse: the forms the
\* code parses and the standard form "YYYY:MM:DD HH:MM:SS", which the parse
\* is written for
ParsingTags(node) ==
    {t \in Range(date_fields) \cap DOMAIN node.exif.tags :
        /\ node.exif.tags[t].text # <<>>
        /\ node.exif.tags[t].text = Canonical \/ ParseTag(node.exif.tags[t]) # NoDate}

\* A recognised image file whose metadata can be read
ReadableImage(file_name, node) ==
    /\ pil
    /\ lower(file_name.ext) \in image_extensions
    /\ node.kind = "file"
    /\ node.exif.state = "tags"

\* The date of the first parsing tag in the order of date_fields
FirstParsingDate(node) ==
    LET i == CHOOSE i \in DOMAIN date_fields :
                 /\ date_fields[i] \in ParsingTags(node)
                 /\ \A j \in 1..(i - 1) : date_fields[j] \notin ParsingTags(node)
    IN  node.exif.tags[date_fields[i]].date

\* C25 as stated: get_file_date_info() on a recognised image takes the date
\* of the first tag, in the order of date_fields, that is present, non-empty
\* and parses, whatever the tags before it hold; it takes the modification
\* time only when no tag parses, and always for a file without a recognised
\* image extension.
C25_TagPriorityAsStated ==
    (ret.call = "get_file_date_info" /\ ret.outcome = "returned")
        => LET file_name == ret.listing[1]
               node == Lookup(fs, SrcPath(file_name))
               metadata == ReadableImage(file_name, node) /\ ParsingTags(node) # {}
           IN  /\ metadata
                     => /\ ret.value.source = "EXIF data"
                        /\ ret.value.original_date = FirstParsingDate(node)
               /\ ~metadata
                     => /\ ret.value.source = "File modification time"
                        /\ ret.value.original_date = node.mtime
               /\ lower(file_name.ext) \notin image_extensions
                     => ret.value.source = "File modification time"

\* The same with the parse as the code performs it: the standard form is one
\* of the values that fail to parse
C25_TagPriorityOfTheCode ==
    (ret.call = "get_file_date_info" /\ ret.outcome = "returned")
        => LET file_name == ret.listing[1]
               node == Lookup(fs, SrcPath(file_name))
               parsed == {t \in ParsingTags(node) : ParseTag(node.exif.tags[t]) # NoDate}
               metadata == ReadableImage(file_name, node) /\ parsed # {}
           IN  /\ metadata
                     => /\ ret.value.source = "EXIF data"
                        /\ \E i \in DOMAIN date_fields :
                              /\ date_fields[i] \in parsed
                              /\ \A j \in 1..(i - 1) : date_fields[j] \notin parsed
                              /\ ret.value.original_date = node.exif.tags[date_fields[i]].date
               /\ ~metadata
                     => /\ ret.value.source = "File modification time"
                        /\ ret.value.original_date = node.mtime


\* The os.path.exists calls of the suffix search that gave entry e its name:
\* one for the plain name and one for each counter up to the one taken
Probes(e) ==
    IF e.to.name = e.file THEN 1 ELSE e.to.name.sfx[Len(e.to.name.sfx)] + 1

\* The names bucket b of f holds
NamesIn(f, b) == Cardinality(DOMAIN BucketNode(f, b).items)

\* The names in the bucket of entry i of the batch when its search ran: those
\* the bucket held before the batch and those the batch had placed there
NamesBefore(entries, i) ==
    NamesIn(pre.fs, entries[i].to.bucket)
       + Cardinality({j \in 1..(i - 1) : entries[j].to.bucket = entries[i].to.bucket})

\* The names of the listing that the loop has passed / has not reached
Visited == {listing[i] : i \in 1..(idx - 1)}

NotReached == {listing[i] : i \in idx..Len(listing)}

\* The steps a call has left at most: the turns of the loop it is in, the
\* listing and the turns of the loop after it, and the return
StepsLeft ==
    IF pc = "idle" THEN 0
    ELSE IF pc = "mkdir" THEN (Len(listing) + 1 - idx) + 1 + Cardinality(DOMAIN fs.src.items) + 1
    ELSE IF pc = "scanned" THEN 1 + Cardinality(DOMAIN fs.src.items) + 1
    ELSE (Len(listing) + 1 - idx) + 1

\* C26: copy() and move() terminate: a batch that has begun returns or
\* raises, every step taking one from the steps it has left.  The loop passes the listing once, front to back: a name behind
\* the loop index has at most one entry or error and, being a regular file,
\* exactly one, a name at or after it has none, and no name is listed twice.  The suffix search of an entry made at
\* most (names in its bucket) + 1 probes.
C26_BatchTerminates ==
    /\ [](pc \in {"copy", "move"}
             => /\ idx \in 1..(Len(listing) + 1)
                /\ \A i, j \in DOMAIN listing : i # j => listing[i] # listing[j]
                /\ \A n \in Visited :
                      /\ CountOf(done, n) + CountOf(errors, n) <= 1
                      /\ Lookup(pre.fs, SrcPath(n)).kind = "file"
                            => CountOf(done, n) + CountOf(errors, n) = 1
                /\ \A n \in NotReached : CountOf(done, n) + CountOf(errors, n) = 0)
    /\ [](ret.call \in {"copy", "move"}
             => \A i \in DOMAIN ret.entries :
                   Probes(ret.entries[i]) <= NamesBefore(ret.entries, i) + 1)
    /\ [][pc # "idle" => StepsLeft' < StepsLeft]_vars
    /\ (pc # "idle") ~> (pc = "idle")

\* A copy whose search for doc.txt found doc.txt and doc_1.txt taken and
\* stopped at doc_2.txt: three probes in a bucket of two names
C26_Witness ==
    /\ Returned("copy")
    /\ \E i \in DOMAIN ret.entries :
          /\ ret.entries[i].file = DocTxt
          /\ ret.entries[i].to.name = SuffixedName(DocTxt, 2)
          /\ Probes(ret.entries[i]) = 3
          /\ NamesBefore(ret.entries, i) = 2


\* The data of the regular files of f, wherever they are
FileData(f) ==
    {f.src.items[n].data : n \in {m \in DOMAIN f.src.items : f.src.items[m].kind = "file"}}
    \cup UNION {{f.dst.items[b].items[n].data :
                    n \in {m \in DOMAIN f.dst.items[b].items :
                              f.dst.items[b].items[m].kind = "file"}} :
                b \in {c \in DOMAIN f.dst.items : f.dst.items[c].kind = "dir"}}

\* C27 as stated: when undo_last_action() reverses a move and finds a file at
\* an entry's source path while the moved file is at its destination path,
\* the file at the source path is left as it is, and both files are still
\* in the file system after the undo.
C27_UndoKeepsSourceSideFileAsStated ==
    (ret.call = "undo" /\ pre.last_operation.type = "move")
        => \A e \in Pending :
              (Lookup(pre.fs, e.from).kind = "file" /\ Lookup(pre.fs, e.to).kind = "file")
                 => /\ Lookup(fs, e.from) = Lookup(pre.fs, e.from)
                    /\ Lookup(pre.fs, e.from).data \in FileData(fs)
                    /\ Lookup(pre.fs, e.to).data \in FileData(fs)


\* The paths of f at which a regular file with data d lies
PathsOf(f, d) ==
    {SrcPath(n) : n \in {m \in DOMAIN f.src.items :
                            f.src.items[m].kind = "file" /\ f.src.items[m].data = d}}
    \cup UNION {{DstPath(b, n) :
                    n \in {m \in DOMAIN f.dst.items[b].items :
                              /\ f.dst.items[b].items[m].kind = "file"
                              /\ f.dst.items[b].items[m].data = d}} :
                b \in {c \in DOMAIN f.dst.items : f.dst.items[c].kind = "dir"}}

Tree(d) ==
    [b \in DOMAIN d.items |->
        IF d.items[b].kind = "dir" THEN d.items[b].items ELSE d.items[b]]

\* C29 as stated: after copy() or move() recorded an operation and the
\* undo_last_action() that follows returned true, the destination root holds
\* exactly the directories and files it held before the batch.
C29_RoundTripOnDestinationAsStated ==
    (UndoFollows(pre.ret.call) /\ pre.ret.call \in {"copy", "move"} /\ ret.value = TRUE)
        => Tree(fs.dst) = Tree(pre.prev_fs.dst)


\* C30 as stated: in every state of the window the Undo button is enabled
\* only if the window holds an engine with a recorded last operation.
C30_UndoAvailabilityAsStated ==
    window.undo_button = "normal"
        => /\ window.file_management_logic # "None"
           /\ last_operation # NoOperation

====
